---------------------------- MODULE Spec2Model ----------------------------
(***************************************************************************)
(* OrganEyes file organizer (src/file_organizer.py): the scan - classify - *)
(* plan - execute - rollback pipeline over a small file tree.              *)
(*                                                                         *)
(* File and folder names are strings, relative paths are "/"-joined        *)
(* strings as in the program, and a location on disk is the sequence of    *)
(* its path components below the scan root (<<>> is the root itself).      *)
(***************************************************************************)
EXTENDS Integers, Sequences, FiniteSets, TLC

(***************************************************************************)
(* Bounds of the model.                                                    *)
(***************************************************************************)
MaxFiles == 2

MaxFaults == 1

MaxReviews == 1

MaxUndoRuns == 2

MaxExternal == 1

MaxScanFiles == 2

(***************************************************************************)
(* Strings.                                                                *)
(***************************************************************************)
Chr(s, i) == SubSeq(s, i, i)

StartsWith(s, pre) == Len(s) >= Len(pre) /\ SubSeq(s, 1, Len(pre)) = pre

\* str.rfind(c) + 1: the last position of character c in s, 0 when absent
RFind(s, c) ==
    LET hits == {i \in 1..Len(s) : Chr(s, i) = c}
    IN  IF hits = {} THEN 0 ELSE CHOOSE i \in hits : \A j \in hits : j <= i

\* str.find(c) + 1
Find(s, c) ==
    LET hits == {i \in 1..Len(s) : Chr(s, i) = c}
    IN  IF hits = {} THEN 0 ELSE CHOOSE i \in hits : \A j \in hits : i <= j

\* printable ASCII in code point order: 32..95 and 97..126 (a string of the
\* model cannot hold the grave accent, 96)
AsciiLo == " !\"#$%&'()*+,-./0123456789:;<=>?@ABCDEFGHIJKLMNOPQRSTUVWXYZ[\\]^_"

AsciiHi == "abcdefghijklmnopqrstuvwxyz{|}~"

\* ord(c) for a printable character (control characters sort before them)
Ord(c) ==
    LET i == Find(AsciiLo, c)
        j == Find(AsciiHi, c)
    IN  IF i > 0 THEN i + 31 ELSE IF j > 0 THEN j + 96 ELSE 0

\* Python's str ordering: a < b
RECURSIVE StrLess(_, _)
StrLess(a, b) ==
    IF b = "" THEN FALSE
    ELSE IF a = "" THEN TRUE
    ELSE IF Chr(a, 1) = Chr(b, 1) THEN StrLess(Tail(a), Tail(b))
    ELSE Ord(Chr(a, 1)) < Ord(Chr(b, 1))

\* str.lower() on ASCII
RECURSIVE Lower(_)
Lower(s) ==
    IF s = "" THEN ""
    ELSE LET c == Chr(s, 1)
             o == Ord(c)
         IN  (IF o >= 65 /\ o <= 90 THEN Chr(AsciiHi, o - 64) ELSE c) \o Lower(Tail(s))

\* pathlib PurePath.suffix: the last dot, unless it is first or last in the name
PathSuffix(name) ==
    LET i == RFind(name, ".")
    IN  IF i > 1 /\ i < Len(name) THEN SubSeq(name, i, Len(name)) ELSE ""

\* pathlib PurePath.stem
PathStem(name) ==
    LET i == RFind(name, ".")
    IN  IF i > 1 /\ i < Len(name) THEN SubSeq(name, 1, i - 1) ELSE name

\* os.path.splitext: the last dot, unless only dots precede it
SplitExt(name) ==
    LET i == RFind(name, ".")
    IN  IF i > 0 /\ \E j \in 1..(i - 1) : Chr(name, j) # "."
        THEN <<SubSeq(name, 1, i - 1), SubSeq(name, i, Len(name))>>
        ELSE <<name, "">>

\* a "/"-joined relative path as its components (empty components dropped)
RECURSIVE SplitPath(_)
SplitPath(s) ==
    LET i == Find(s, "/")
    IN  IF s = "" THEN <<>>
        ELSE IF i = 0 THEN <<s>>
        ELSE IF i = 1 THEN SplitPath(Tail(s))
        ELSE <<SubSeq(s, 1, i - 1)>> \o SplitPath(SubSeq(s, i + 1, Len(s)))

\* the components joined by "/": str(path.relative_to(root))
RECURSIVE JoinPath(_)
JoinPath(p) ==
    IF p = <<>> THEN ""
    ELSE IF Len(p) = 1 THEN p[1]
    ELSE p[1] \o "/" \o JoinPath(Tail(p))

Parent(p) == SubSeq(p, 1, Len(p) - 1)

Basename(p) == p[Len(p)]

IsPrefix(d, p) == Len(d) <= Len(p) /\ SubSeq(p, 1, Len(d)) = d

(***************************************************************************)
(* File type categories and default protected folders.                     *)
(***************************************************************************)
Categories == <<"Documents", "Images", "Videos", "Audio", "Code", "Archives", "Other">>

FILE_CATEGORIES ==
    [Documents |-> {".pdf", ".doc", ".docx", ".txt", ".rtf", ".odt", ".xls",
                    ".xlsx", ".ppt", ".pptx", ".csv", ".md", ".epub", ".mobi"},
     Images    |-> {".jpg", ".jpeg", ".png", ".gif", ".bmp", ".svg", ".webp",
                    ".tiff", ".ico", ".heic", ".raw", ".psd", ".ai"},
     Videos    |-> {".mp4", ".avi", ".mkv", ".mov", ".wmv", ".flv", ".webm",
                    ".m4v", ".mpeg", ".mpg", ".3gp"},
     Audio     |-> {".mp3", ".wav", ".flac", ".aac", ".ogg", ".wma", ".m4a",
                    ".aiff", ".opus"},
     Code      |-> {".py", ".js", ".ts", ".jsx", ".tsx", ".html", ".css",
                    ".java", ".c", ".cpp", ".h", ".go", ".rs", ".rb", ".php",
                    ".swift", ".kt", ".scala", ".sh", ".bash", ".zsh", ".sql",
                    ".json", ".xml", ".yaml", ".yml", ".toml", ".ini", ".cfg"},
     Archives  |-> {".zip", ".rar", ".7z", ".tar", ".gz", ".bz2", ".xz",
                    ".iso", ".dmg"},
     Other     |-> {}]

DEFAULT_PROTECTED ==
    {".git", ".svn", ".hg", ".vscode", ".idea", ".eclipse",
     ".npm", ".nvm", ".bun", ".yarn", ".pyenv", ".conda", ".virtualenv",
     ".config", ".local", ".cache", ".ssh", ".gnupg", ".Trash", ".DS_Store",
     "node_modules", "__pycache__", ".pytest_cache", "venv", "env", ".env",
     "Library", "Applications", ".claude", ".gemini", ".ollama",
     ".oh-my-zsh", ".zsh_sessions"}

\* datetime.now().year at the time of the scan
CurrentYear == 2026

(***************************************************************************)
(* Helper functions.                                                       *)
(***************************************************************************)
get_file_category(name) ==
    LET ext  == Lower(PathSuffix(name))
        hits == {i \in 1..Len(Categories) : ext \in FILE_CATEGORIES[Categories[i]]}
    IN  IF hits = {} THEN "Other" ELSE Categories[CHOOSE i \in hits : TRUE]

\* m is the file's metadata; mtime 0 stands for a stat() that raises OSError
get_file_year(m) == IF m.mtime = 0 THEN "Unknown" ELSE ToString(m.mtime)

Whitespace == {" ", "\t", "\n", "\r", "\f"}

IllegalChars == {"<", ">", ":", "\"", "/", "\\", "|", "?", "*"}

\* str.strip(" .")
StripSpacesDots(s) ==
    LET kept == {i \in 1..Len(s) : Chr(s, i) \notin {" ", "."}}
    IN  IF kept = {} THEN ""
        ELSE SubSeq(s, CHOOSE i \in kept : \A j \in kept : i <= j,
                       CHOOSE i \in kept : \A j \in kept : j <= i)

\* re.sub(r'[\s_]+', ' ', s) on the characters lo..hi of s: a run of
\* whitespace and underscores leaves one space, where it ends
RECURSIVE CollapseSpan(_, _, _)
CollapseSpan(s, lo, hi) ==
    IF lo > hi THEN ""
    ELSE IF lo = hi
         THEN IF Chr(s, lo) \in Whitespace \cup {"_"}
              THEN IF lo < Len(s) /\ Chr(s, lo + 1) \in Whitespace \cup {"_"}
                   THEN ""
                   ELSE " "
              ELSE Chr(s, lo)
         ELSE CollapseSpan(s, lo, (lo + hi) \div 2)
              \o CollapseSpan(s, ((lo + hi) \div 2) + 1, hi)

CollapseRuns(s) == CollapseSpan(s, 1, Len(s))

\* re.sub(r'[<>:"/\\|?*]', '', s) on the characters lo..hi of s
RECURSIVE RemoveSpan(_, _, _)
RemoveSpan(s, lo, hi) ==
    IF lo > hi THEN ""
    ELSE IF lo = hi
         THEN IF Chr(s, lo) \in IllegalChars THEN "" ELSE Chr(s, lo)
         ELSE RemoveSpan(s, lo, (lo + hi) \div 2)
              \o RemoveSpan(s, ((lo + hi) \div 2) + 1, hi)

RemoveIllegal(s) == RemoveSpan(s, 1, Len(s))

clean_filename(filename) ==
    LET parts == SplitExt(filename)
        n1    == StripSpacesDots(parts[1])
        n2    == CollapseRuns(n1)
        n3    == RemoveIllegal(n2)
        n4    == IF Len(n3) > 100 THEN SubSeq(n3, 1, 97) \o "..." ELSE n3
    IN  n4 \o parts[2]

\* a skip rule that skips nothing
should_skip_folder_never(folder_name, protected) == FALSE

\* a skip rule that knows hidden folders only
should_skip_folder_hidden_only(folder_name, protected) == StartsWith(folder_name, ".")

should_skip_folder(folder_name, protected) ==
    StartsWith(folder_name, ".") \/ folder_name \in protected

(***************************************************************************)
(* The file tree below the scan root.  A tree maps every existing location *)
(* to Dir or to the identity of the file stored there.                     *)
(***************************************************************************)
\* the mark of a directory; a file is marked by its identity, 1 or more
Dir == 0

Exists(f, p) == p \in DOMAIN f

IsDir(f, p) == p \in DOMAIN f /\ f[p] = Dir

IsFile(f, p) == p \in DOMAIN f /\ f[p] # Dir

Prefixes(p) == {SubSeq(p, 1, k) : k \in 0..Len(p)}

\* a directory creation that is never seen to fail
MkdirOkAlways(f, d) == TRUE

\* Path.mkdir(parents=True, exist_ok=True) raises OSError when a component of
\* the chain exists and is not a directory
MkdirOk(f, d) == \A q \in Prefixes(d) : q \in DOMAIN f => f[q] = Dir

MkdirP(f, d) == [p \in DOMAIN f \cup Prefixes(d) |-> IF p \in DOMAIN f THEN f[p] ELSE Dir]

\* os.rename(src, dst) of a file or a directory subtree; a file at dst is replaced
Rename(f, src, dst) ==
    LET moved == {p \in DOMAIN f : IsPrefix(src, p)}
        gone  == moved \cup {p \in DOMAIN f : IsPrefix(dst, p)}
        to(p) == dst \o SubSeq(p, Len(src) + 1, Len(p))
        new   == {to(p) : p \in moved}
    IN  [q \in (DOMAIN f \ gone) \cup new |->
            IF q \in new THEN f[CHOOSE p \in moved : to(p) = q] ELSE f[q]]

\* shutil.move(src, dst): into dst when dst is a directory, else onto dst
ShutilMove(f, src, dst) ==
    LET real_dst == IF IsDir(f, dst) THEN Append(dst, Basename(src)) ELSE dst
    IN  IF IsDir(f, dst) /\ Exists(f, real_dst)
        THEN [ok |-> FALSE, fs |-> f]
        ELSE IF ~Exists(f, src) \/ ~IsDir(f, Parent(real_dst))
                \/ (IsDir(f, src) /\ Exists(f, real_dst))
                \/ IsPrefix(src, Parent(real_dst))
        THEN [ok |-> FALSE, fs |-> f]
        ELSE [ok |-> TRUE, fs |-> Rename(f, src, real_dst)]

(***************************************************************************)
(* State.                                                                  *)
(***************************************************************************)
VARIABLES
    fs,                 \* the file tree on disk
    meta,               \* per file identity (inode): [mtime, size, is_symlink, stat_error]
    unreadable,         \* the directories whose listing raises an error
    pc,                 \* where the operator's session stands
    faults,             \* file system errors injected so far
    protected_folders,  \* FileOrganizer.protected_folders
    files_analyzed,     \* FileOrganizer.files_analyzed
    suggestions,        \* FileOrganizer.suggestions, shared with FileExecutor
    protected_found,    \* FileOrganizer.protected_found
    category_stats,     \* FileOrganizer.category_stats
    year_stats,         \* FileOrganizer.year_stats
    scan_args,          \* the arguments of the scans of a scan-only session: <<>> or <<args>>
    previous,           \* history: the report of the scan before the last one, if any
    filename,           \* the file name handed to clean_filename
    cleaned,            \* history: what clean_filename returned, each time fed its last result
    threads,            \* the execute threads of the HTTP server, one per request
    task_status,        \* TASK_STATUS["status"]
    undoer,             \* the undo the HTTP server's request handler is running
    clock,              \* the wall clock of the HTTP server's host, in half seconds
    ledger_files,       \* the ledger files in the server's root: file name -> data
    reviews,            \* interactive review commands applied so far
    external,           \* files removed by someone else since the scan
    to_execute,         \* execute(): the selected suggestions, as positions in suggestions
    idx,                \* execute(): position of the loop in to_execute
    attempt,            \* _execute_single_move(): the retry loop's attempt
    target_abs,         \* _execute_single_move(): the destination after collision handling
    executed_moves,     \* FileExecutor.executed_moves
    failed_moves,       \* FileExecutor.failed_moves
    skipped_moves,      \* FileExecutor.skipped_moves
    exec_result,        \* what execute() returned: <<>> before it returns
    rollback_file,      \* the ledger file on disk: <<>> when absent, else <<its data>>
    undo_mode,          \* the running undo: "cli" (undo_moves), "http" (_handle_undo); else ""
    undo_pos,           \* the undo loop's position in reversed(moves)
    undone,             \* the undo loop's counter of moves reversed
    undo_failed,        \* the undo loop's counter of failures
    undo_result,        \* what the last undo invocation returned: <<>> while one runs
    undo_done,          \* history: the result of each undo invocation that succeeded
    saves,              \* history: number of ledger writes
    fs_planned,         \* history: the tree when execute() was called
    undo_log,           \* history: the ledger entries the running undo examined
    undo_absent,        \* history: how many of them it passed by, their new path absent
    undo_trees          \* history: the tree when each of these returned

\* no request was made of an HTTP server
IdleUndo == [pc |-> "idle", moves |-> <<>>, pos |-> 0, undone |-> 0, failed |-> 0]

NoServer ==
    /\ threads = <<>>
    /\ task_status = "idle"
    /\ undoer = IdleUndo
    /\ clock = 0
    /\ ledger_files = <<>>

scanVars == <<protected_folders, files_analyzed, protected_found, category_stats,
              year_stats>>

\* what only a scan-only session changes
\* the state of the HTTP server's threads
concVars == <<threads, task_status, undoer, clock, ledger_files>>

ledgerVars == <<clock, ledger_files>>

sideVars == <<unreadable, scan_args, previous, filename, cleaned, threads, task_status, undoer,
              clock, ledger_files>>

execVars == <<to_execute, idx, attempt, target_abs, executed_moves, failed_moves,
              skipped_moves, exec_result, saves, fs_planned>>

undoVars == <<undo_mode, undo_pos, undone, undo_failed, undo_result, undo_done, undo_log,
              undo_absent, undo_trees>>

vars == <<fs, meta, unreadable, pc, faults, external, protected_folders, files_analyzed,
          suggestions, protected_found, category_stats, year_stats, scan_args, previous,
          filename, cleaned, threads, task_status, undoer, clock, ledger_files,
          reviews, to_execute, idx, attempt, target_abs,
          executed_moves, failed_moves, skipped_moves, exec_result, rollback_file,
          undo_mode, undo_pos, undone, undo_failed, undo_result, undo_done, saves,
          fs_planned,
          undo_log, undo_absent, undo_trees>>

(***************************************************************************)
(* FileOrganizer: scan, classify, plan.                                    *)
(***************************************************************************)
\* list(path.iterdir()): the entries of directory d, in name order or reversed
\* (the order of enumeration is the file system's)
RECURSIVE SortNames(_)
SortNames(S) ==
    IF S = {} THEN <<>>
    ELSE LET m == CHOOSE x \in S : \A y \in S : y = x \/ StrLess(x, y)
         IN  <<m>> \o SortNames(S \ {m})

Reverse(s) == [i \in 1..Len(s) |-> s[Len(s) + 1 - i]]

IterDir(f, d, order) ==
    LET names == {Basename(p) : p \in {q \in DOMAIN f : Len(q) = Len(d) + 1 /\ IsPrefix(d, q)}}
    IN  IF order = "asc" THEN SortNames(names) ELSE Reverse(SortNames(names))

YearLabel(m, group_old) ==
    LET year == get_file_year(m)
    IN  IF group_old /\ year # "Unknown" /\ CurrentYear - m.mtime >= 5
        THEN ToString((m.mtime \div 10) * 10) \o "s"
        ELSE year

\* an accounting that adds the size of every name it meets
effective_size_of_every_name(m, inode, seen) == m.size

\* the size a file adds to its category's total: nothing for a symbolic link
\* and for an inode that was counted before
effective_size(m, inode, seen) ==
    IF m.stat_error = "lstat" THEN 0
    ELSE IF m.is_symlink THEN 0
    ELSE IF inode \in seen THEN 0
    ELSE m.size

\* the file_info record of _analyze_file; when lstat() raises OSError the
\* size is 0 and the file is not taken for a symbolic link
analyze_file(f, mt, p, rel_path, group_old) ==
    [name       |-> Basename(p),
     rel_path   |-> rel_path,
     category   |-> get_file_category(Basename(p)),
     year       |-> YearLabel(mt[f[p]], group_old),
     size       |-> IF mt[f[p]].stat_error = "lstat" \/ mt[f[p]].is_symlink
                    THEN 0 ELSE mt[f[p]].size,
     is_symlink |-> mt[f[p]].stat_error # "lstat" /\ mt[f[p]].is_symlink]

\* defaultdict(lambda: {"count": 0, "size": 0}): a category never met reads as zeros
NoCategoryStats ==
    [c \in {Categories[i] : i \in 1..Len(Categories)} |-> [count |-> 0, size |-> 0]]

\* defaultdict(int), year_stats[year] += 1
CountYear(stats, year) ==
    IF year \in DOMAIN stats THEN [stats EXCEPT ![year] = @ + 1]
    ELSE [y \in DOMAIN stats \cup {year} |-> IF y = year THEN 1 ELSE stats[y]]

\* acc = [files, found, seen, category_stats, year_stats]: the results of the
\* scan so far
NoScan ==
    [files |-> <<>>, found |-> <<>>, seen |-> {}, category_stats |-> NoCategoryStats,
     year_stats |-> <<>>]

\* _analyze_file: the record is appended and the statistics are updated
record_file(acc, f, mt, p, rel_path, group_old) ==
    LET info == analyze_file(f, mt, p, rel_path, group_old)
        m    == mt[f[p]]
    IN  [files          |-> Append(acc.files, info),
         found          |-> acc.found,
         seen           |-> IF m.is_symlink \/ m.stat_error = "lstat" THEN acc.seen
                            ELSE acc.seen \cup {f[p]},
         category_stats |-> [acc.category_stats EXCEPT
                               ![info.category].count = @ + 1,
                               ![info.category].size = @ + effective_size(m, f[p], acc.seen)],
         year_stats     |-> CountYear(acc.year_stats, info.year)]

\* a scanner without a depth bound
TooDeepNever(depth, max_depth) == FALSE

\* if depth > max_depth: return
TooDeep(depth, max_depth) == depth > max_depth

\* a listing error that throws away the file records made so far
OnListErrorForgetting(acc) == [acc EXCEPT !.files = <<>>]

\* except PermissionError / OSError around path.iterdir(): log and return
OnListError(acc) == acc

\* a scanner that passes by every entry whose metadata cannot be read
is_dir_raises_on_any_error(f, mt, entry) ==
    IsFile(f, entry) /\ mt[f[entry]].stat_error # ""

\* entry.is_dir() raises PermissionError or OSError: the entry is passed by
is_dir_raises(f, mt, entry) ==
    IsFile(f, entry) /\ mt[f[entry]].stat_error = "is_dir"

RECURSIVE scan_entries(_, _, _, _, _, _, _, _, _, _, _)
scan_directory(acc, f, mt, prot, denied, path, depth, max_depth, rel_prefix, order, group_old) ==
    IF TooDeep(depth, max_depth) THEN acc
    ELSE IF path \in denied THEN OnListError(acc)
    ELSE scan_entries(acc, f, mt, prot, denied, path, IterDir(f, path, order),
                      depth, max_depth, order, group_old)

scan_entries(acc, f, mt, prot, denied, path, entries, depth, max_depth, order, group_old) ==
    IF entries = <<>> THEN acc
    ELSE
      LET name     == Head(entries)
          entry    == Append(path, name)
          rel_path == JoinPath(entry)
          rest(a)  == scan_entries(a, f, mt, prot, denied, path, Tail(entries),
                                   depth, max_depth, order, group_old)
      IN  IF is_dir_raises(f, mt, entry)
          THEN rest(acc)
          ELSE IF IsDir(f, entry)
          THEN IF depth = 0 /\ name \in prot
               THEN rest([acc EXCEPT !.found = Append(@, rel_path)])
               ELSE IF depth = 1 /\ (Basename(path) \o "/" \o name) \in prot
               THEN rest([acc EXCEPT !.found = Append(@, rel_path)])
               ELSE IF should_skip_folder(name, prot)
               THEN rest(acc)
               ELSE rest(scan_directory(acc, f, mt, prot, denied, entry, depth + 1,
                                        max_depth, rel_path, order, group_old))
          ELSE IF StartsWith(name, ".")
               THEN rest(acc)
               ELSE rest(record_file(acc, f, mt, entry, rel_path, group_old))

\* a planner that proposes every file under the name it has
generate_suggestion_keeping_name(file_info) ==
    LET new_rel_path == file_info.category \o "/" \o file_info.year \o "/" \o file_info.name
    IN  [original_path    |-> file_info.rel_path,
         original_name    |-> file_info.name,
         suggested_path   |-> new_rel_path,
         suggested_name   |-> file_info.name,
         category         |-> file_info.category,
         year             |-> file_info.year,
         size             |-> file_info.size,
         rename_suggested |-> FALSE,
         move_required    |-> file_info.rel_path # new_rel_path,
         final_path       |-> ""]

\* a planner that asks for a move only when the file is not in the folder of
\* its category and year
generate_suggestion_by_folder(file_info) ==
    LET cleaned_name     == clean_filename(file_info.name)
        rename_suggested == cleaned_name # file_info.name
    IN  [original_path    |-> file_info.rel_path,
         original_name    |-> file_info.name,
         suggested_path   |-> file_info.category \o "/" \o file_info.year \o "/"
                              \o cleaned_name,
         suggested_name   |-> cleaned_name,
         category         |-> file_info.category,
         year             |-> file_info.year,
         size             |-> file_info.size,
         rename_suggested |-> rename_suggested,
         move_required    |-> file_info.rel_path # file_info.category \o "/"
                                \o file_info.year \o "/" \o file_info.name,
         final_path       |-> ""]

\* _generate_suggestions: the suggestion made for one file record
generate_suggestion(file_info) ==
    LET cleaned_name     == clean_filename(file_info.name)
        rename_suggested == cleaned_name # file_info.name
        new_rel_path     == file_info.category \o "/" \o file_info.year \o "/"
                            \o (IF rename_suggested THEN cleaned_name ELSE file_info.name)
    \* final_path "" stands for the key being absent
    IN  [original_path    |-> file_info.rel_path,
         original_name    |-> file_info.name,
         suggested_path   |-> new_rel_path,
         suggested_name   |-> IF rename_suggested THEN cleaned_name ELSE file_info.name,
         category         |-> file_info.category,
         year             |-> file_info.year,
         size             |-> file_info.size,
         rename_suggested |-> rename_suggested,
         move_required    |-> file_info.rel_path # new_rel_path,
         final_path       |-> ""]

generate_suggestions(files) == [i \in 1..Len(files) |-> generate_suggestion(files[i])]

\* key=lambda x: (x["category"], x["year"], x["original_name"]), a <= b
KeyLeq(a, b) ==
    IF a.category # b.category THEN StrLess(a.category, b.category)
    ELSE IF a.year # b.year THEN StrLess(a.year, b.year)
    ELSE a.original_name = b.original_name \/ StrLess(a.original_name, b.original_name)

\* list.sort(key=...): stable
RECURSIVE SortSuggestions(_)
SortSuggestions(s) ==
    IF s = <<>> THEN <<>>
    ELSE LET front == SortSuggestions(SubSeq(s, 1, Len(s) - 1))
             x     == s[Len(s)]
             k     == Cardinality({i \in 1..Len(front) : KeyLeq(front[i], x)})
         IN  SubSeq(front, 1, k) \o <<x>> \o SubSeq(front, k + 1, Len(front))

\* a report that leaves the suggestions in scan order
build_report_in_scan_order(files) == generate_suggestions(files)

\* _build_report: self.suggestions.sort(key=...)
build_report(files) == SortSuggestions(generate_suggestions(files))

\* _build_report, summary: sum(f["size"] for f in self.files_analyzed)
RECURSIVE total_size(_)
total_size(files) ==
    IF files = <<>> THEN 0 ELSE Head(files).size + total_size(Tail(files))

\* analyze() of a new FileOrganizer: scan, plan, report
analyze(f, mt, prot, denied, max_depth, order, group_old) ==
    LET acc == scan_directory(NoScan, f, mt, prot, denied, <<>>, 0, max_depth, "", order,
                              group_old)
    IN  [files_analyzed  |-> acc.files,
         protected_found |-> acc.found,
         category_stats  |-> acc.category_stats,
         year_stats      |-> acc.year_stats,
         suggestions     |-> build_report(acc.files)]

(***************************************************************************)
(* Initial trees: up to MaxFiles files, each in one of InitDirs under one  *)
(* of InitNames, with a modification year of Years.                        *)
(***************************************************************************)
InitDirs == << <<>>, <<"Documents", "2023">> >>

InitNames == <<"a.txt", "a (1).txt", "m.mp4", "Videos", "b_c.txt">>

Years == {2019, 2023}

CallerProtected == {{}, {"Documents"}}

DepthChoices == {0, 10}

LocPath(k) ==
    Append(InitDirs[((k - 1) \div Len(InitNames)) + 1], InitNames[((k - 1) % Len(InitNames)) + 1])

TreeOf(place) ==
    LET files == {LocPath(place[i]) : i \in DOMAIN place}
        all   == UNION {Prefixes(p) : p \in files} \cup {<<>>}
    IN  [p \in all |-> IF p \in files THEN CHOOSE i \in DOMAIN place : LocPath(place[i]) = p
                       ELSE Dir]

Init ==
    /\ \E n \in 0..MaxFiles :
         \E place \in [1..n -> 1..(Len(InitDirs) * Len(InitNames))] :
           /\ \A i \in 1..(n - 1) : place[i] < place[i + 1]
           /\ fs = TreeOf(place)
           /\ \E years \in [1..n -> Years] :
                meta = [i \in 1..n |-> [mtime |-> years[i], size |-> 10 * i,
                                         is_symlink |-> FALSE, stat_error |-> ""]]
    /\ unreadable = {}
    /\ scan_args = <<>>
    /\ previous = <<>>
    /\ filename = ""
    /\ cleaned = <<>>
    /\ NoServer
    /\ category_stats = NoCategoryStats
    /\ year_stats = <<>>
    /\ \E caller \in CallerProtected : protected_folders = caller \cup DEFAULT_PROTECTED
    /\ pc = "start"
    /\ faults = 0
    /\ files_analyzed = <<>>
    /\ suggestions = <<>>
    /\ protected_found = <<>>
    /\ reviews = 0
    /\ external = 0
    /\ to_execute = <<>>
    /\ idx = 0
    /\ attempt = 0
    /\ target_abs = <<>>
    /\ executed_moves = <<>>
    /\ failed_moves = <<>>
    /\ skipped_moves = <<>>
    /\ exec_result = <<>>
    /\ rollback_file = <<>>
    /\ undo_mode = ""
    /\ undo_pos = 0
    /\ undone = 0
    /\ undo_failed = 0
    /\ undo_result = <<>>
    /\ undo_done = <<>>
    /\ saves = 0
    /\ fs_planned = fs
    /\ undo_log = <<>>
    /\ undo_absent = 0
    /\ undo_trees = <<>>

(***************************************************************************)
(* FileOrganizer.analyze                                                   *)
(***************************************************************************)
Analyze ==
    /\ pc = "start"
    /\ \E max_depth \in DepthChoices, order \in {"asc", "desc"}, group_old \in BOOLEAN :
         \E report \in {analyze(fs, meta, protected_folders, unreadable, max_depth,
                                 order, group_old)} :
             /\ files_analyzed' = report.files_analyzed
             /\ protected_found' = report.protected_found
             /\ category_stats' = report.category_stats
             /\ year_stats' = report.year_stats
             /\ suggestions' = report.suggestions
    /\ pc' = "analyzed"
    /\ UNCHANGED <<fs, meta, faults, external, protected_folders, reviews, rollback_file>>
    /\ UNCHANGED execVars
    /\ UNCHANGED undoVars
    /\ UNCHANGED sideVars

(***************************************************************************)
(* FileExecutor.interactive_review: the commands that edit a suggestion.   *)
(***************************************************************************)
ReviewNames == {"a.txt"}

\* [s <ID>]
ReviewToggle ==
    /\ pc = "analyzed"
    /\ reviews < MaxReviews
    /\ \E i \in 1..Len(suggestions) :
         suggestions' = [suggestions EXCEPT ![i].move_required = ~@]
    /\ reviews' = reviews + 1
    /\ UNCHANGED <<fs, meta, pc, faults, external, rollback_file>>
    /\ UNCHANGED scanVars
    /\ UNCHANGED execVars
    /\ UNCHANGED undoVars
    /\ UNCHANGED sideVars

\* [r <ID> <NAME>]
ReviewRename ==
    /\ pc = "analyzed"
    /\ reviews < MaxReviews
    /\ \E i \in 1..Len(suggestions), new_name \in ReviewNames :
         suggestions' = [suggestions EXCEPT
                           ![i].suggested_name = new_name,
                           ![i].suggested_path = suggestions[i].category \o "/"
                                                 \o suggestions[i].year \o "/" \o new_name,
                           ![i].rename_suggested = TRUE]
    /\ reviews' = reviews + 1
    /\ UNCHANGED <<fs, meta, pc, faults, external, rollback_file>>
    /\ UNCHANGED scanVars
    /\ UNCHANGED execVars
    /\ UNCHANGED undoVars
    /\ UNCHANGED sideVars

(***************************************************************************)
(* The tree changes under the plan: a scanned file is removed by someone   *)
(* else between the scan and the execution.                                *)
(***************************************************************************)
ExternalRemove ==
    /\ pc = "analyzed"
    /\ external < MaxExternal
    /\ \E p \in {q \in DOMAIN fs : IsFile(fs, q)} :
         fs' = [q \in DOMAIN fs \ {p} |-> fs[q]]
    /\ external' = external + 1
    /\ UNCHANGED <<meta, pc, faults, suggestions, reviews, rollback_file>>
    /\ UNCHANGED scanVars
    /\ UNCHANGED execVars
    /\ UNCHANGED undoVars
    /\ UNCHANGED sideVars

(***************************************************************************)
(* FileExecutor.execute                                                    *)
(***************************************************************************)
CategoryFilters == {"", "Documents"}

YearFilters == {"", "2023"}

\* a selection that forgets the move_required flag
SelectedIgnoringMoveFlag(sugg, category_filter, year_filter) ==
    {i \in 1..Len(sugg) :
        /\ category_filter # "" => sugg[i].category = category_filter
        /\ year_filter # "" => sugg[i].year = year_filter}

\* the suggestions execute() keeps, as their positions in the list
Selected(sugg, category_filter, year_filter) ==
    {i \in 1..Len(sugg) :
        /\ category_filter # "" => sugg[i].category = category_filter
        /\ year_filter # "" => sugg[i].year = year_filter
        /\ sugg[i].move_required}

RECURSIVE Ascending(_)
Ascending(S) ==
    IF S = {} THEN <<>>
    ELSE LET m == CHOOSE x \in S : \A y \in S : x <= y
         IN  <<m>> \o Ascending(S \ {m})

\* proceed: confirm is False, or the operator typed 'yes'
\* an execute() that starts a batch whatever was selected
nothing_to_execute_never(to_exec) == FALSE

\* if not to_execute
nothing_to_execute(to_exec) == to_exec = <<>>

ExecuteStart ==
    /\ pc = "analyzed"
    /\ \E category_filter \in CategoryFilters, year_filter \in YearFilters, proceed \in BOOLEAN :
         LET sel == Ascending(Selected(suggestions, category_filter, year_filter))
         IN  /\ to_execute' = sel
             /\ IF nothing_to_execute(sel)
                THEN /\ exec_result' = <<[executed |-> 0, failed |-> 0, skipped |-> 0,
                                          rollback_file |-> FALSE]>>
                     /\ pc' = "executed"
                ELSE IF ~proceed
                THEN /\ exec_result' = <<[executed |-> 0, failed |-> 0, skipped |-> Len(sel),
                                          rollback_file |-> FALSE]>>
                     /\ pc' = "executed"
                ELSE /\ exec_result' = <<>>
                     /\ pc' = "moving"
    /\ idx' = 1
    /\ fs_planned' = fs
    /\ UNCHANGED <<fs, meta, faults, external, suggestions, reviews, rollback_file, attempt,
                   target_abs, executed_moves, failed_moves, skipped_moves, saves>>
    /\ UNCHANGED scanVars
    /\ UNCHANGED undoVars
    /\ UNCHANGED sideVars

\* a suffixing that puts the number after the extension
get_unique_path_after_extension(f, path) ==
    IF ~Exists(f, path) THEN path
    ELSE LET cand(n) == Append(Parent(path), Basename(path) \o " (" \o ToString(n) \o ")")
             counter == CHOOSE n \in 1..(Cardinality(DOMAIN f) + 1) :
                           /\ ~Exists(f, cand(n))
                           /\ \A m \in 1..(n - 1) : Exists(f, cand(m))
         IN  cand(counter)

\* a suffixing that never looks whether its candidate is free
get_unique_path_unchecked(f, path) ==
    IF ~Exists(f, path) THEN path
    ELSE Append(Parent(path),
                PathStem(Basename(path)) \o " (1)" \o PathSuffix(Basename(path)))

\* FileExecutor._get_unique_path
get_unique_path(f, path) ==
    IF ~Exists(f, path) THEN path
    ELSE LET stem    == PathStem(Basename(path))
             suffix  == PathSuffix(Basename(path))
             cand(n) == Append(Parent(path), stem \o " (" \o ToString(n) \o ")" \o suffix)
             counter == CHOOSE n \in 1..(Cardinality(DOMAIN f) + 1) :
                           /\ ~Exists(f, cand(n))
                           /\ \A m \in 1..(n - 1) : Exists(f, cand(m))
         IN  cand(counter)

max_retries == 3

\* a retry loop that gives up at the first error
last_attempt_at_once(n) == TRUE

\* a retry loop that counts one attempt too many
last_attempt_late(n) == n = max_retries

\* if attempt == max_retries - 1
last_attempt(n) == n = max_retries - 1

\* a failure that is logged but not recorded
RecordFailureLost(failed, suggestion, error) == failed

\* self.failed_moves.append({**suggestion, "error": str(e)})
RecordFailure(failed, suggestion, error) == Append(failed, suggestion @@ [error |-> error])

\* a skip that leaves no trace
RecordSkipLost(skipped, suggestion) == skipped

\* self.skipped_moves.append({**suggestion, "reason": "source_not_found"})
RecordSkip(skipped, suggestion) == Append(skipped, suggestion @@ [reason |-> "source_not_found"])

\* _execute_single_move up to the retry loop: source check, collision handling,
\* creation of the target directory
\* a move that never finds its destination taken
target_exists_never(f, target) == FALSE

\* if target_abs.exists()
target_exists(f, target) == Exists(f, target)

BeginMove ==
    /\ pc = "moving"
    /\ idx <= Len(to_execute)
    /\ LET i            == to_execute[idx]
           suggestion   == suggestions[i]
           original_abs == SplitPath(suggestion.original_path)
           planned      == SplitPath(suggestion.suggested_path)
           collides     == target_exists(fs, planned)
           target       == IF collides THEN get_unique_path(fs, planned) ELSE planned
           marked       == IF collides
                           THEN [suggestions EXCEPT ![i].final_path = JoinPath(target)]
                           ELSE suggestions
       IN  IF ~Exists(fs, original_abs)
           THEN /\ skipped_moves' = RecordSkip(skipped_moves, suggestion)
                /\ idx' = idx + 1
                /\ UNCHANGED <<fs, faults, suggestions, pc, attempt, target_abs, failed_moves>>
           ELSE /\ suggestions' = marked
                /\ \/ /\ MkdirOk(fs, Parent(target))
                      /\ fs' = MkdirP(fs, Parent(target))
                      /\ target_abs' = target
                      /\ attempt' = 0
                      /\ pc' = "attempt"
                      /\ UNCHANGED <<faults, idx, failed_moves>>
                   \/ /\ ~MkdirOk(fs, Parent(target)) \/ faults < MaxFaults
                      /\ faults' = IF MkdirOk(fs, Parent(target)) THEN faults + 1 ELSE faults
                      /\ failed_moves' = RecordFailure(failed_moves, marked[i], "mkdir")
                      /\ idx' = idx + 1
                      /\ UNCHANGED <<fs, pc, attempt, target_abs>>
                /\ UNCHANGED skipped_moves
    /\ UNCHANGED <<meta, external, reviews, rollback_file, to_execute, executed_moves,
                   exec_result, saves, fs_planned>>
    /\ UNCHANGED scanVars
    /\ UNCHANGED undoVars
    /\ UNCHANGED sideVars

\* a ledger record that notes the planned path instead of the path used
ExecutedMovePlanned(suggestion, original_abs, target) ==
    [original_path |-> suggestion.original_path,
     new_path      |-> suggestion.suggested_path,
     original_abs  |-> original_abs,
     new_abs       |-> SplitPath(suggestion.suggested_path),
     size          |-> suggestion.size]

\* the ledger record of a completed move
ExecutedMove(suggestion, original_abs, target) ==
    [original_path |-> suggestion.original_path,
     new_path      |-> JoinPath(target),
     original_abs  |-> original_abs,
     new_abs       |-> target,
     size          |-> suggestion.size]

\* one pass of the retry loop of _execute_single_move; shutil.move raises OSError
\* by itself or by an injected fault, which is counted when it first hits a move
\* and may then persist over the retries of that move
AttemptMove ==
    /\ pc = "attempt"
    /\ LET i            == to_execute[idx]
           suggestion   == suggestions[i]
           original_abs == SplitPath(suggestion.original_path)
           r            == ShutilMove(fs, original_abs, target_abs)
       IN  \/ /\ r.ok
              /\ fs' = r.fs
              /\ executed_moves' = Append(executed_moves,
                                          ExecutedMove(suggestion, original_abs, target_abs))
              /\ idx' = idx + 1
              /\ pc' = "moving"
              /\ UNCHANGED <<faults, attempt, failed_moves>>
           \/ /\ ~r.ok \/ attempt > 0 \/ faults < MaxFaults
              /\ faults' = IF r.ok /\ attempt = 0 THEN faults + 1 ELSE faults
              /\ IF last_attempt(attempt)
                 THEN /\ failed_moves' = RecordFailure(failed_moves, suggestion,
                                                       "move " \o ToString(attempt + 1))
                      /\ idx' = idx + 1
                      /\ pc' = "moving"
                      /\ UNCHANGED attempt
                 ELSE /\ attempt' = attempt + 1
                      /\ UNCHANGED <<failed_moves, idx, pc>>
              /\ UNCHANGED <<fs, executed_moves>>
    /\ UNCHANGED <<meta, external, suggestions, reviews, rollback_file, to_execute,
                   target_abs, skipped_moves, exec_result, saves, fs_planned>>
    /\ UNCHANGED scanVars
    /\ UNCHANGED undoVars
    /\ UNCHANGED sideVars

\* a ledger that keeps the completed moves only
RollbackDataMovesOnly(moves, failed, skipped) ==
    [total_moves |-> Len(moves), moves |-> moves, failed |-> <<>>, skipped |-> <<>>]

\* FileExecutor._save_rollback: the data written to the ledger file
RollbackData(moves, failed, skipped) ==
    [total_moves |-> Len(moves), moves |-> moves, failed |-> failed, skipped |-> skipped]

\* the end of execute(): the ledger is written and the counts are returned
SaveRollback ==
    /\ pc = "moving"
    /\ idx > Len(to_execute)
    /\ rollback_file' = <<RollbackData(executed_moves, failed_moves, skipped_moves)>>
    /\ saves' = saves + 1
    /\ exec_result' = <<[executed |-> Len(executed_moves), failed |-> Len(failed_moves),
                         skipped |-> Len(skipped_moves), rollback_file |-> TRUE]>>
    /\ pc' = "executed"
    /\ UNCHANGED <<fs, meta, faults, external, suggestions, reviews, to_execute, idx,
                   attempt, target_abs, executed_moves, failed_moves, skipped_moves,
                   fs_planned>>
    /\ UNCHANGED scanVars
    /\ UNCHANGED undoVars
    /\ UNCHANGED sideVars

\* the operator deletes the ledger file
DeleteLedger ==
    /\ pc \in {"executed", "undone"}
    /\ rollback_file # <<>>
    /\ rollback_file' = <<>>
    /\ UNCHANGED <<fs, meta, pc, faults, external, suggestions, reviews>>
    /\ UNCHANGED scanVars
    /\ UNCHANGED execVars
    /\ UNCHANGED undoVars
    /\ UNCHANGED sideVars

(***************************************************************************)
(* Undo: undo_moves (command line) and OrganizerAPIHandler._handle_undo.   *)
(***************************************************************************)
\* a replay in ledger order
UndoOrderForward(moves) == moves

\* for move in reversed(moves)
UndoOrder(moves) == Reverse(moves)

UndoResult(success, error, n_undone, n_failed) ==
    [success |-> success, error |-> error, undone |-> n_undone, failed |-> n_failed]

\* a missing ledger taken for an empty one
CliLedgerMissingAsEmpty == UndoResult(TRUE, "", 0, 0)

\* undo_moves: return {"success": False, "error": "file_not_found"}
CliLedgerMissing == UndoResult(FALSE, "file_not_found", 0, 0)

\* _handle_undo: self._send_json({"error": "Rollback file not found: ..."}, 404)
HttpLedgerMissing == UndoResult(FALSE, "Rollback file not found", 0, 0)

\* An invocation that returns leaves undo_mode "" and its loop variables cleared;
\* MaxUndoRuns bounds the invocations that succeed.
UndoReturn(result, tree) ==
    /\ undo_result' = <<result>>
    /\ undo_done' = IF result.success THEN Append(undo_done, result) ELSE undo_done
    /\ undo_trees' = IF result.success THEN Append(undo_trees, tree) ELSE undo_trees
    /\ undo_mode' = ""
    /\ undo_pos' = 0
    /\ undone' = 0
    /\ undo_failed' = 0
    /\ undo_log' = <<>>
    /\ undo_absent' = 0
    /\ pc' = "undone"

UndoEnter(mode) ==
    /\ undo_result' = <<>>
    /\ undo_mode' = mode
    /\ undo_pos' = 1
    /\ undone' = 0
    /\ undo_failed' = 0
    /\ undo_log' = <<>>
    /\ undo_absent' = 0
    /\ pc' = "undoing"
    /\ UNCHANGED <<undo_done, undo_trees>>

\* undo_moves(rollback_file), up to its loop; yes is the operator's answer to
\* the confirmation prompt
UndoStartCli ==
    /\ pc \in {"executed", "undone"}
    /\ Len(undo_done) < MaxUndoRuns
    /\ \E yes \in BOOLEAN :
         IF rollback_file = <<>>
         THEN UndoReturn(CliLedgerMissing, fs)
         ELSE IF rollback_file[1].moves = <<>>
         THEN UndoReturn(UndoResult(TRUE, "", 0, 0), fs)
         ELSE IF ~yes
         THEN UndoReturn(UndoResult(FALSE, "cancelled", 0, 0), fs)
         ELSE UndoEnter("cli")
    /\ UNCHANGED <<fs, meta, faults, external, suggestions, reviews, rollback_file>>
    /\ UNCHANGED scanVars
    /\ UNCHANGED execVars
    /\ UNCHANGED sideVars

\* OrganizerAPIHandler._handle_undo, up to its loop
UndoStartHttp ==
    /\ pc \in {"executed", "undone"}
    /\ Len(undo_done) < MaxUndoRuns
    /\ IF rollback_file = <<>>
       THEN UndoReturn(HttpLedgerMissing, fs)
       ELSE UndoEnter("http")
    /\ UNCHANGED <<fs, meta, faults, external, suggestions, reviews, rollback_file>>
    /\ UNCHANGED scanVars
    /\ UNCHANGED execVars
    /\ UNCHANGED sideVars

\* a replay that gives up at the first move it cannot reverse
stop_after_failure(pos, moves) == Len(moves) + 1

\* except OSError: failed += 1, and the loop goes on with the next entry
next_after_failure(pos, moves) == pos + 1

\* one pass of the undo loop
UndoStep ==
    /\ pc = "undoing"
    /\ undo_pos <= Len(rollback_file[1].moves)
    /\ LET move    == UndoOrder(rollback_file[1].moves)[undo_pos]
           made    == MkdirP(fs, Parent(move.original_abs))
           r       == ShutilMove(made, move.new_abs, move.original_abs)
       IN  /\ undo_log' = Append(undo_log, move)
           /\ IF ~Exists(fs, move.new_abs)
              THEN /\ undo_absent' = undo_absent + 1
                   /\ UNCHANGED <<fs, faults, undone, undo_failed>>
              ELSE /\ UNCHANGED undo_absent
                   /\ \/ /\ MkdirOk(fs, Parent(move.original_abs))
                         /\ r.ok
                         /\ fs' = r.fs
                         /\ undone' = undone + 1
                         /\ UNCHANGED <<faults, undo_failed>>
                      \/ /\ ~MkdirOk(fs, Parent(move.original_abs))
                         /\ undo_failed' = undo_failed + 1
                         /\ UNCHANGED <<fs, faults, undone>>
                      \/ /\ MkdirOk(fs, Parent(move.original_abs))
                         /\ ~r.ok
                         /\ fs' = made
                         /\ undo_failed' = undo_failed + 1
                         /\ UNCHANGED <<faults, undone>>
                      \/ /\ MkdirOk(fs, Parent(move.original_abs))
                         /\ r.ok
                         /\ faults < MaxFaults
                         /\ faults' = faults + 1
                         /\ fs' \in {fs, made}
                         /\ undo_failed' = undo_failed + 1
                         /\ UNCHANGED undone
    /\ undo_pos' = IF undo_failed' # undo_failed
                   THEN next_after_failure(undo_pos, rollback_file[1].moves)
                   ELSE undo_pos + 1
    /\ UNCHANGED <<meta, pc, external, suggestions, reviews, rollback_file, undo_mode,
                   undo_result,
                   undo_done, undo_trees>>
    /\ UNCHANGED scanVars
    /\ UNCHANGED execVars
    /\ UNCHANGED sideVars

\* a cleanup that removes the category folders of the root with all they hold
cleanup_category_dirs(f) ==
    [p \in {q \in DOMAIN f :
               ~(Len(q) >= 1 /\ q[1] \in {Categories[i] : i \in DOMAIN Categories}
                             /\ f[<<q[1]>>] = Dir)}
       |-> f[p]]

\* _cleanup_empty_dirs: below each category folder of the root, bottom-up, every
\* directory found empty is removed
cleanup_empty_dirs(f) ==
    LET cats      == {Categories[i] : i \in DOMAIN Categories}
        removable == {d \in DOMAIN f :
                        /\ Len(d) >= 1
                        /\ d[1] \in cats
                        /\ f[d] = Dir
                        /\ \A p \in DOMAIN f : IsPrefix(d, p) => f[p] = Dir}
    IN  [p \in DOMAIN f \ removable |-> f[p]]

\* the end of either invocation: cleanup, then the counts are returned
UndoFinish ==
    /\ pc = "undoing"
    /\ undo_pos > Len(rollback_file[1].moves)
    /\ fs' = cleanup_empty_dirs(fs)
    /\ UndoReturn(UndoResult(TRUE, "", undone, undo_failed), fs')
    /\ UNCHANGED <<meta, faults, external, suggestions, reviews, rollback_file>>
    /\ UNCHANGED scanVars
    /\ UNCHANGED execVars
    /\ UNCHANGED sideVars

Next ==
    \/ Analyze
    \/ ReviewToggle
    \/ ReviewRename
    \/ ExternalRemove
    \/ ExecuteStart
    \/ BeginMove
    \/ AttemptMove
    \/ SaveRollback
    \/ DeleteLedger
    \/ UndoStartCli
    \/ UndoStartHttp
    \/ UndoStep
    \/ UndoFinish

Spec == Init /\ [][Next]_vars

(***************************************************************************)
(* A session up to the end of its batch.  The batch is one loop of a       *)
(* running program: while it runs, it takes its next step, which is a step *)
(* of BeginMove, AttemptMove or SaveRollback and changes the place of the  *)
(* loop.                                                                   *)
(***************************************************************************)
\* the place of the loop of execute(): its step, its suggestion, its attempt
progress == <<pc, idx, attempt>>

\* the running batch goes from one place of its loop to another
BatchStep ==
    /\ pc \in {"moving", "attempt"}
    /\ pc' \in {"moving", "attempt", "executed"}
    /\ idx' \in {idx, idx + 1}
    /\ attempt' \in 0..(max_retries - 1)

BatchNext ==
    \/ Analyze
    \/ ReviewToggle
    \/ ReviewRename
    \/ ExternalRemove
    \/ ExecuteStart
    \/ BeginMove
    \/ AttemptMove
    \/ SaveRollback

LiveSpec == Init /\ [][BatchNext]_vars /\ WF_progress(BatchStep)


(***************************************************************************)
(* Scan-only sessions: a tree with hidden, protected, nested and           *)
(* unreadable directories, hard links and a symbolic link is analyzed, and *)
(* analyzed again by a new FileOrganizer with the same arguments.          *)
(***************************************************************************)
ScanPaths ==
    << <<"notes.txt">>,
       <<"clip.mp4">>,
       <<".hidden.txt">>,
       <<".git", "config">>,
       <<"proj", "notes.txt">>,
       <<"proj", ".git", "config">>,
       <<"proj", "keep", "k.txt">>,
       <<"proj", "src", "d.py">>,
       <<"proj", "src", "deep", "e.py">> >>

\* what goes wrong when the metadata of a file is read: nothing; is_dir()
\* raises PermissionError; is_dir() answers, then lstat() and stat() raise
StatErrors == {"", "is_dir", "lstat"}

ScanProtected == {{}, {"proj"}, {"proj/keep"}, {"src"}, {"src/deep"}}

ScanDepths == {0, 2, 10}

\* the tree with a file at each chosen path; inode[i] is the identity of the
\* i-th file, shared by the names of one hard-linked file
ScanTree(place, inode) ==
    LET files == {ScanPaths[place[i]] : i \in DOMAIN place}
        all   == UNION {Prefixes(p) : p \in files} \cup {<<>>}
    IN  [p \in all |-> IF p \in files
                       THEN inode[CHOOSE i \in DOMAIN place : ScanPaths[place[i]] = p]
                       ELSE Dir]

\* nothing was planned, executed or undone
NothingRun ==
    /\ faults = 0
    /\ reviews = 0
    /\ external = 0
    /\ to_execute = <<>>
    /\ idx = 0
    /\ attempt = 0
    /\ target_abs = <<>>
    /\ executed_moves = <<>>
    /\ failed_moves = <<>>
    /\ skipped_moves = <<>>
    /\ exec_result = <<>>
    /\ rollback_file = <<>>
    /\ undo_mode = ""
    /\ undo_pos = 0
    /\ undone = 0
    /\ undo_failed = 0
    /\ undo_result = <<>>
    /\ undo_done = <<>>
    /\ saves = 0
    /\ fs_planned = fs
    /\ undo_log = <<>>
    /\ undo_absent = 0
    /\ undo_trees = <<>>

ScanInit ==
    /\ \E n \in 0..MaxScanFiles :
         \E place \in [1..n -> 1..Len(ScanPaths)] :
           /\ \A i \in 1..(n - 1) : place[i] < place[i + 1]
           /\ \E linked \in BOOLEAN, symlink \in BOOLEAN, old \in BOOLEAN,
                 trouble \in StatErrors :
                /\ linked => n >= 2
                /\ (symlink \/ old) => n >= 1
                /\ trouble # "" => (n >= 1 /\ ~linked /\ ~symlink /\ ~old)
                /\ fs = ScanTree(place, [i \in 1..n |-> IF linked /\ i = 2 THEN 1 ELSE i])
                /\ meta = [i \in 1..n |->
                             [mtime      |-> IF trouble = "lstat" /\ i = 1 THEN 0
                                             ELSE IF old /\ i = 1 THEN 2019 ELSE 2023,
                              size       |-> 10 * i,
                              is_symlink |-> symlink /\ i = 1,
                              stat_error |-> IF i = 1 THEN trouble ELSE ""]]
    /\ unreadable \in {{}} \cup {{d} : d \in {q \in DOMAIN fs : IsDir(fs, q)}}
    /\ \E caller \in ScanProtected : protected_folders = caller \cup DEFAULT_PROTECTED
    /\ \E max_depth \in ScanDepths, group_old \in BOOLEAN :
         scan_args = <<[max_depth |-> max_depth, group_old |-> group_old]>>
    /\ previous = <<>>
    /\ filename = ""
    /\ cleaned = <<>>
    /\ NoServer
    /\ pc = "start"
    /\ files_analyzed = <<>>
    /\ suggestions = <<>>
    /\ protected_found = <<>>
    /\ category_stats = NoCategoryStats
    /\ year_stats = <<>>
    /\ NothingRun

\* what analyze() returned last
Report ==
    [files_analyzed  |-> files_analyzed,
     protected_found |-> protected_found,
     category_stats  |-> category_stats,
     year_stats      |-> year_stats,
     suggestions     |-> suggestions]

\* a new FileOrganizer analyzes the tree; the order in which a directory
\* lists its entries is the file system's
Scan ==
    /\ \E order \in {"asc", "desc"} :
         \E report \in {analyze(fs, meta, protected_folders, unreadable,
                                 scan_args[1].max_depth, order, scan_args[1].group_old)} :
             /\ files_analyzed' = report.files_analyzed
             /\ protected_found' = report.protected_found
             /\ category_stats' = report.category_stats
             /\ year_stats' = report.year_stats
             /\ suggestions' = report.suggestions
    /\ UNCHANGED <<fs, meta, unreadable, protected_folders, scan_args, faults, external,
                   reviews, rollback_file, filename, cleaned>>
    /\ UNCHANGED concVars
    /\ UNCHANGED execVars
    /\ UNCHANGED undoVars

ScanAnalyze ==
    /\ pc = "start"
    /\ pc' = "analyzed"
    /\ Scan
    /\ UNCHANGED previous

ScanAgain ==
    /\ pc = "analyzed"
    /\ pc' = "reanalyzed"
    /\ previous' = <<Report>>
    /\ Scan

ScanNext ==
    \/ ScanAnalyze
    \/ ScanAgain

ScanSpec == ScanInit /\ [][ScanNext]_vars

(***************************************************************************)
(* File names: clean_filename is applied to a name and then to what it     *)
(* returned, as happens when an organized tree is analyzed again.          *)
(***************************************************************************)
MaxStem == 3
MaxCleanings == 2

\* the characters names are drawn from: a letter, the characters the
\* cleaning strips or collapses, and one it removes
NameChars == {"a", " ", "_", ".", ":"}

RECURSIVE Repeat(_, _)
Repeat(c, n) ==
    IF n = 0 THEN ""
    ELSE IF n = 1 THEN c
    ELSE Repeat(c, n \div 2) \o Repeat(c, n - (n \div 2))

RECURSIVE StemsOf(_)
StemsOf(n) == IF n = 0 THEN {""} ELSE {s \o c : s \in StemsOf(n - 1), c \in NameChars}

\* short names, and names whose stem passes the 100 characters of the trim
NameInputs ==
    {stem \o ext : stem \in UNION {StemsOf(n) : n \in 0..MaxStem}
                            \cup {Repeat("a", 101), Repeat("a", 99) \o "_:b"},
                   ext \in {"", ".txt"}} \ {"", ".", ".."}

NameInit ==
    /\ filename \in NameInputs
    /\ cleaned = <<>>
    /\ NoServer
    /\ fs = [p \in {<<>>} |-> Dir]
    /\ meta = <<>>
    /\ unreadable = {}
    /\ protected_folders = DEFAULT_PROTECTED
    /\ scan_args = <<>>
    /\ previous = <<>>
    /\ pc = "start"
    /\ files_analyzed = <<>>
    /\ suggestions = <<>>
    /\ protected_found = <<>>
    /\ category_stats = NoCategoryStats
    /\ year_stats = <<>>
    /\ NothingRun

\* clean_filename is applied to the name, then to its own last result
CleanName ==
    /\ Len(cleaned) < MaxCleanings
    /\ cleaned' = Append(cleaned, clean_filename(IF cleaned = <<>> THEN filename
                                                  ELSE cleaned[Len(cleaned)]))
    /\ UNCHANGED <<fs, meta, unreadable, pc, faults, external, protected_folders,
                   files_analyzed, suggestions, protected_found, category_stats,
                   year_stats, scan_args, previous, filename, reviews, rollback_file>>
    /\ UNCHANGED concVars
    /\ UNCHANGED execVars
    /\ UNCHANGED undoVars

NameNext == CleanName

NameSpec == NameInit /\ [][NameNext]_vars

(***************************************************************************)
(* The HTTP server: every execute request that is accepted runs its batch  *)
(* in a thread of its own, over the one tree; an undo runs in the request  *)
(* handler, which takes one request at a time.  A batch names its ledger    *)
(* file after the second in which it ends.                                 *)
(***************************************************************************)
MaxRequests == 2
MaxServedFiles == 2
MaxClock == 2

Threads == 1..MaxRequests

\* two files that are planned for one destination, and a third
ServedPaths == << <<"a.txt">>, <<"proj", "a.txt">>, <<"m.mp4">> >>

ServedTree(chosen) ==
    LET files == {ServedPaths[i] : i \in chosen}
        all   == UNION {Prefixes(p) : p \in files} \cup {<<>>}
    IN  [p \in all |-> IF p \in files
                       THEN Cardinality({i \in chosen : i <= CHOOSE j \in chosen :
                                                                 ServedPaths[j] = p})
                       ELSE Dir]

IdleThread ==
    [pc |-> "idle", custom |-> <<>>, to_execute |-> <<>>, idx |-> 0, attempt |-> 0,
     target_abs |-> <<>>, executed_moves |-> <<>>, failed_moves |-> <<>>,
     skipped_moves |-> <<>>, ledger |-> <<>>]

ServerInit ==
    /\ \E chosen \in SUBSET (1..Len(ServedPaths)) :
         /\ Cardinality(chosen) \in 1..MaxServedFiles
         /\ fs = ServedTree(chosen)
         /\ meta = [i \in 1..Cardinality(chosen) |->
                      [mtime |-> 2023, size |-> 10 * i, is_symlink |-> FALSE,
                       stat_error |-> ""]]
    /\ threads = [t \in Threads |-> IdleThread]
    /\ task_status = "idle"
    /\ undoer = IdleUndo
    /\ clock = 0
    /\ ledger_files = <<>>
    /\ pc = "start"
    /\ protected_folders = DEFAULT_PROTECTED
    /\ unreadable = {}
    /\ scan_args = <<>>
    /\ previous = <<>>
    /\ filename = ""
    /\ cleaned = <<>>
    /\ files_analyzed = <<>>
    /\ suggestions = <<>>
    /\ protected_found = <<>>
    /\ category_stats = NoCategoryStats
    /\ year_stats = <<>>
    /\ NothingRun

\* what only the command-line session changes
offlineVars == <<meta, faults, external, reviews, rollback_file, protected_folders,
                 unreadable, scan_args, previous, filename, cleaned>>

\* OrganizerAPIHandler.current_report: <<>> while it is None
current_report == IF pc = "start" THEN <<>> ELSE <<suggestions>>

\* _run_analysis_thread, taken as one step: the report of a new FileOrganizer
\* becomes the current report
ServerAnalyze ==
    /\ pc = "start"
    /\ undoer.pc # "undoing"
    /\ pc' = "analyzed"
    /\ \E order \in {"asc", "desc"} :
         \E report \in {analyze(fs, meta, protected_folders, unreadable, 10, order, FALSE)} :
             /\ files_analyzed' = report.files_analyzed
             /\ protected_found' = report.protected_found
             /\ category_stats' = report.category_stats
             /\ year_stats' = report.year_stats
             /\ suggestions' = report.suggestions
    /\ task_status' = "complete"
    /\ UNCHANGED <<fs, threads, undoer>>
    /\ UNCHANGED offlineVars
    /\ UNCHANGED ledgerVars
    /\ UNCHANGED execVars
    /\ UNCHANGED undoVars

\* a handler that turns a request down while an operation is running
handle_execute_exclusive(report, status) == report # <<>> /\ status # "running"

\* _handle_execute: the request is accepted when there is a report; the task
\* status is written, never read
handle_execute(report, status) == report # <<>>

\* the list the executor of thread t works on: the custom suggestions of its
\* request, or the list of the current report, which the threads share
ThreadList(t) == IF threads[t].custom # <<>> THEN threads[t].custom ELSE suggestions

\* the destinations a caller writes into a suggestion it sends: one in a
\* folder of the root that is no category, one in the folder that holds the
\* root (a path that begins with ".." lies outside the root)
CallerPaths == {"elsewhere/a.txt", "../a.txt"}

\* data.get('suggestions'): the lists a caller sends, which hold one
\* suggestion of the report as it is or with a destination of the caller's
CustomSuggestions(sugg) ==
    {<<sugg[i]>> : i \in 1..Len(sugg)}
    \cup {<<[sugg[i] EXCEPT !.suggested_path = path]>> :
             i \in 1..Len(sugg), path \in CallerPaths}

\* an execute request arrives: status 400, or a thread is started that builds
\* its executor and selects the suggestions to move
ExecuteRequest(t) ==
    /\ threads[t].pc = "idle"
    /\ undoer.pc # "undoing"
    /\ IF handle_execute(current_report, task_status)
       THEN /\ \E custom \in {<<>>} \cup CustomSuggestions(suggestions) :
                 threads' = [threads EXCEPT
                    ![t].pc = "moving",
                    ![t].custom = custom,
                    ![t].to_execute =
                        Ascending(Selected(IF custom # <<>> THEN custom ELSE suggestions,
                                           "", "")),
                    ![t].idx = 1]
            /\ task_status' = "running"
       ELSE /\ threads' = [threads EXCEPT ![t].pc = "rejected"]
            /\ UNCHANGED task_status
    /\ UNCHANGED <<fs, pc, suggestions, undoer>>
    /\ UNCHANGED offlineVars
    /\ UNCHANGED ledgerVars
    /\ UNCHANGED <<files_analyzed, protected_found, category_stats, year_stats>>
    /\ UNCHANGED execVars
    /\ UNCHANGED undoVars

\* _execute_single_move of thread t up to the retry loop
ThreadBegin(t) ==
    /\ threads[t].pc = "moving"
    /\ threads[t].idx <= Len(threads[t].to_execute)
    /\ LET th           == threads[t]
           i            == th.to_execute[th.idx]
           suggestion   == ThreadList(t)[i]
           original_abs == SplitPath(suggestion.original_path)
           planned      == SplitPath(suggestion.suggested_path)
           collides     == target_exists(fs, planned)
           target       == IF collides THEN get_unique_path(fs, planned) ELSE planned
           marked       == IF collides
                           THEN [suggestion EXCEPT !.final_path = JoinPath(target)]
                           ELSE suggestion
           noted(x)     == IF th.custom # <<>> THEN [x EXCEPT !.custom[i] = marked] ELSE x
       IN  IF ~Exists(fs, original_abs)
           THEN /\ threads' = [threads EXCEPT
                      ![t].skipped_moves = RecordSkip(th.skipped_moves, suggestion),
                      ![t].idx = th.idx + 1]
                /\ UNCHANGED <<fs, suggestions>>
           ELSE /\ suggestions' = IF th.custom # <<>> THEN suggestions
                                  ELSE [suggestions EXCEPT ![i] = marked]
                /\ IF MkdirOk(fs, Parent(target))
                   THEN /\ fs' = MkdirP(fs, Parent(target))
                        /\ threads' = [threads EXCEPT
                              ![t] = noted([th EXCEPT !.target_abs = target,
                                                      !.attempt = 0,
                                                      !.pc = "attempt"])]
                   ELSE /\ threads' = [threads EXCEPT
                              ![t] = noted([th EXCEPT
                                 !.failed_moves = RecordFailure(th.failed_moves, marked, "mkdir"),
                                 !.idx = th.idx + 1])]
                        /\ UNCHANGED fs
    /\ task_status' = "running"
    /\ UNCHANGED <<pc, undoer>>
    /\ UNCHANGED offlineVars
    /\ UNCHANGED ledgerVars
    /\ UNCHANGED <<files_analyzed, protected_found, category_stats, year_stats>>
    /\ UNCHANGED execVars
    /\ UNCHANGED undoVars

\* one pass of the retry loop of thread t
ThreadAttempt(t) ==
    /\ threads[t].pc = "attempt"
    /\ LET th           == threads[t]
           suggestion   == ThreadList(t)[th.to_execute[th.idx]]
           original_abs == SplitPath(suggestion.original_path)
           r            == ShutilMove(fs, original_abs, th.target_abs)
       IN  IF r.ok
           THEN /\ fs' = r.fs
                /\ threads' = [threads EXCEPT
                      ![t].executed_moves =
                          Append(th.executed_moves,
                                 ExecutedMove(suggestion, original_abs, th.target_abs)),
                      ![t].idx = th.idx + 1,
                      ![t].pc = "moving"]
           ELSE /\ UNCHANGED fs
                /\ IF last_attempt(th.attempt)
                   THEN threads' = [threads EXCEPT
                           ![t].failed_moves =
                               RecordFailure(th.failed_moves, suggestion,
                                             "move " \o ToString(th.attempt + 1)),
                           ![t].idx = th.idx + 1,
                           ![t].pc = "moving"]
                   ELSE threads' = [threads EXCEPT ![t].attempt = th.attempt + 1]
    /\ UNCHANGED <<pc, suggestions, task_status, undoer>>
    /\ UNCHANGED offlineVars
    /\ UNCHANGED ledgerVars
    /\ UNCHANGED <<files_analyzed, protected_found, category_stats, year_stats>>
    /\ UNCHANGED execVars
    /\ UNCHANGED undoVars

\* datetime.now().strftime("%Y%m%d_%H%M%S"): the time to the second
strftime(now) == ToString(now \div 2)

\* _save_rollback: the name of the ledger file
rollback_name(now) == "organizer_rollback_" \o strftime(now) \o ".json"

\* open(rollback_file, 'w') and json.dump: the file is created, or replaced
WriteFile(files, name, data) ==
    [n \in DOMAIN files \cup {name} |-> IF n = name THEN data ELSE files[n]]

\* the end of execute() in thread t: the ledger is written unless nothing was
\* selected, and the thread reports completion
ThreadFinish(t) ==
    /\ threads[t].pc = "moving"
    /\ threads[t].idx > Len(threads[t].to_execute)
    /\ threads' = [threads EXCEPT
          ![t].pc = "done",
          ![t].ledger = IF threads[t].to_execute = <<>> THEN <<>>
                        ELSE <<rollback_name(clock)>>]
    /\ ledger_files' = IF threads[t].to_execute = <<>> THEN ledger_files
                       ELSE WriteFile(ledger_files, rollback_name(clock),
                                      RollbackData(threads[t].executed_moves,
                                                   threads[t].failed_moves,
                                                   threads[t].skipped_moves))
    /\ task_status' = "complete"
    /\ UNCHANGED <<fs, pc, suggestions, undoer, clock>>
    /\ UNCHANGED offlineVars
    /\ UNCHANGED <<files_analyzed, protected_found, category_stats, year_stats>>
    /\ UNCHANGED execVars
    /\ UNCHANGED undoVars

\* _handle_undo up to its loop, for the ledger file that the batch of thread t
\* named in its result: status 404 when it named none
UndoRequest(t) ==
    /\ undoer.pc = "idle"
    /\ undoer' = IF threads[t].ledger = <<>>
                 THEN [undoer EXCEPT !.pc = "rejected"]
                 ELSE [undoer EXCEPT
                          !.pc = "undoing",
                          !.moves = UndoOrder(ledger_files[threads[t].ledger[1]].moves),
                          !.pos = 1]
    /\ UNCHANGED <<fs, pc, suggestions, threads, task_status>>
    /\ UNCHANGED offlineVars
    /\ UNCHANGED ledgerVars
    /\ UNCHANGED <<files_analyzed, protected_found, category_stats, year_stats>>
    /\ UNCHANGED execVars
    /\ UNCHANGED undoVars

\* one pass of the loop of _handle_undo
UndoLoop ==
    /\ undoer.pc = "undoing"
    /\ undoer.pos <= Len(undoer.moves)
    /\ LET move == undoer.moves[undoer.pos]
           made == MkdirP(fs, Parent(move.original_abs))
           r    == ShutilMove(made, move.new_abs, move.original_abs)
       IN  IF ~Exists(fs, move.new_abs)
           THEN /\ undoer' = [undoer EXCEPT !.pos = @ + 1]
                /\ UNCHANGED fs
           ELSE IF ~MkdirOk(fs, Parent(move.original_abs))
           THEN /\ undoer' = [undoer EXCEPT !.pos = @ + 1, !.failed = @ + 1]
                /\ UNCHANGED fs
           ELSE IF r.ok
           THEN /\ undoer' = [undoer EXCEPT !.pos = @ + 1, !.undone = @ + 1]
                /\ fs' = r.fs
           ELSE /\ undoer' = [undoer EXCEPT !.pos = @ + 1, !.failed = @ + 1]
                /\ fs' = made
    /\ UNCHANGED <<pc, suggestions, threads, task_status>>
    /\ UNCHANGED offlineVars
    /\ UNCHANGED ledgerVars
    /\ UNCHANGED <<files_analyzed, protected_found, category_stats, year_stats>>
    /\ UNCHANGED execVars
    /\ UNCHANGED undoVars

\* the end of _handle_undo: cleanup, then the counts are sent
UndoEnd ==
    /\ undoer.pc = "undoing"
    /\ undoer.pos > Len(undoer.moves)
    /\ fs' = cleanup_empty_dirs(fs)
    /\ undoer' = [undoer EXCEPT !.pc = "done"]
    /\ UNCHANGED <<pc, suggestions, threads, task_status>>
    /\ UNCHANGED offlineVars
    /\ UNCHANGED ledgerVars
    /\ UNCHANGED <<files_analyzed, protected_found, category_stats, year_stats>>
    /\ UNCHANGED execVars
    /\ UNCHANGED undoVars

\* half a second passes
Tick ==
    /\ clock < MaxClock
    /\ clock' = clock + 1
    /\ UNCHANGED <<fs, pc, suggestions, threads, task_status, undoer, ledger_files>>
    /\ UNCHANGED offlineVars
    /\ UNCHANGED <<files_analyzed, protected_found, category_stats, year_stats>>
    /\ UNCHANGED execVars
    /\ UNCHANGED undoVars

ServerNext ==
    \/ ServerAnalyze
    \/ \E t \in Threads : ExecuteRequest(t)
    \/ \E t \in Threads : ThreadBegin(t)
    \/ \E t \in Threads : ThreadAttempt(t)
    \/ \E t \in Threads : ThreadFinish(t)
    \/ \E t \in Threads : UndoRequest(t)
    \/ UndoLoop
    \/ UndoEnd
    \/ Tick

ServerSpec == ServerInit /\ [][ServerNext]_vars

(***************************************************************************)
(* Properties.                                                             *)
(***************************************************************************)
FilesAt(f) == {p \in DOMAIN f : IsFile(f, p)}

CategoryNames == {Categories[i] : i \in 1..Len(Categories)}

\* a directory strictly below a category-named directory of the root that
\* holds nothing
EmptyDirUnderCategory(f) ==
    \E d \in DOMAIN f :
        /\ IsDir(f, d)
        /\ Len(d) >= 2
        /\ d[1] \in CategoryNames
        /\ ~\E q \in DOMAIN f : Len(q) = Len(d) + 1 /\ IsPrefix(d, q)

\* C1 (as stated): after an Execute and a first completed Undo of its ledger,
\* with no file-system error, no outside change and no failure reported by
\* the Undo, every moved file lies at its original absolute path again and
\* no empty directory remains under a category-named directory.
C1_RoundTrip ==
    ( /\ pc = "undone"
      /\ saves = 1
      /\ faults = 0
      /\ external = 0
      /\ Len(undo_done) = 1
      /\ undo_done[1].failed = 0 )
    => /\ \A k \in 1..Len(executed_moves) :
            LET m == executed_moves[k]
            IN  /\ IsFile(fs, m.original_abs)
                /\ fs[m.original_abs] = fs_planned[m.original_abs]
       /\ ~EmptyDirUnderCategory(fs)

\* C2: a move whose planned destination was found occupied lands on a path
\* that did not exist before the move, and every entry that existed before
\* the move, other than the source, is still what it was.
C2_CollisionSafety ==
    [][ ( /\ pc = "attempt"
          /\ suggestions[to_execute[idx]].final_path # ""
          /\ FilesAt(fs') # FilesAt(fs) )
        => LET src == SplitPath(suggestions[to_execute[idx]].original_path)
           IN  /\ \E t \in DOMAIN fs' \ DOMAIN fs : fs'[t] = fs[src]
               /\ \A p \in DOMAIN fs \ {src} : p \in DOMAIN fs' /\ fs'[p] = fs[p] ]_vars

\* a move has landed on a suffixed path because its planned path was taken
\* by an earlier move of the same batch
C2_Witness ==
    \E j, k \in 1..Len(executed_moves) :
        /\ j < k
        /\ \E i \in 1..Len(suggestions) :
             /\ suggestions[i].original_path = executed_moves[k].original_path
             /\ suggestions[i].suggested_path = executed_moves[j].new_path
             /\ suggestions[i].final_path = executed_moves[k].new_path
        /\ executed_moves[k].new_path # executed_moves[j].new_path
        /\ IsFile(fs, executed_moves[j].new_abs)
        /\ IsFile(fs, executed_moves[k].new_abs)

\* C3 (as stated): a second completed Undo of the same ledger, after a first
\* one that reported no failure and with no file-system error, succeeds,
\* counts zero moves undone and zero failed, and leaves every file where it
\* was after the first.
C3_UndoIdempotent ==
    ( /\ Len(undo_done) = 2
      /\ faults = 0
      /\ undo_done[1].failed = 0 )
    => /\ undo_done[2].success
       /\ undo_done[2].undone = 0
       /\ undo_done[2].failed = 0
       /\ FilesAt(undo_trees[2]) = FilesAt(undo_trees[1])
       /\ \A p \in FilesAt(undo_trees[1]) : undo_trees[2][p] = undo_trees[1][p]

\* the confirmation prompt was declined: execute() reports the whole
\* selection as skipped without having processed any of it
Cancelled == exec_result # <<>> /\ exec_result[1].skipped # Len(skipped_moves)

\* C4 (as stated): every Execute invocation that was not declined at the
\* prompt has written the ledger exactly once by the time it returns.
C4_LedgerEveryRun ==
    (exec_result # <<>> /\ ~Cancelled) => saves = 1

\* C4 (amended): an Execute invocation that selected at least one suggestion
\* and was not declined writes the ledger exactly once, after the last
\* per-suggestion attempt and as it returns, whatever the outcomes; what it
\* writes holds the executed, failed and skipped lists.
C4_LedgerOncePerBatch ==
    /\ []((exec_result # <<>> /\ ~Cancelled /\ to_execute # <<>>) => saves = 1)
    /\ [](exec_result = <<>> => saves = 0)
    /\ [][ saves' # saves =>
             /\ saves' = saves + 1
             /\ idx > Len(to_execute)
             /\ Len(executed_moves) + Len(failed_moves) + Len(skipped_moves) = Len(to_execute)
             /\ exec_result = <<>>
             /\ exec_result' # <<>>
             /\ rollback_file' # <<>>
             /\ rollback_file'[1].moves = executed_moves
             /\ rollback_file'[1].failed = failed_moves
             /\ rollback_file'[1].skipped = skipped_moves
             /\ rollback_file'[1].total_moves = Len(executed_moves) ]_vars

\* a batch in which nothing moved, one suggestion failed and one was skipped,
\* has written its ledger
C4_Witness ==
    /\ pc = "executed"
    /\ saves = 1
    /\ executed_moves = <<>>
    /\ Len(failed_moves) = 1
    /\ Len(skipped_moves) = 1
    /\ rollback_file # <<>>
    /\ rollback_file[1].failed = failed_moves
    /\ rollback_file[1].skipped = skipped_moves

\* the number of entries the three lists hold for an original path
Outcomes(path) ==
    Cardinality({k \in 1..Len(executed_moves) : executed_moves[k].original_path = path})
    + Cardinality({k \in 1..Len(failed_moves) : failed_moves[k].original_path = path})
    + Cardinality({k \in 1..Len(skipped_moves) : skipped_moves[k].original_path = path})

\* C5: while a batch runs, every selected suggestion already processed is in
\* exactly one of the executed, failed and skipped lists and no other is in
\* any; when the batch returns every selected suggestion is in exactly one,
\* failures or not, and the three reported counts add up to the number
\* selected.
C5_ExactlyOneOutcome ==
    /\ pc \in {"moving", "attempt"} =>
         \A j \in 1..Len(to_execute) :
            Outcomes(suggestions[to_execute[j]].original_path) = IF j < idx THEN 1 ELSE 0
    /\ exec_result # <<>> =>
         /\ exec_result[1].executed + exec_result[1].failed + exec_result[1].skipped
              = Len(to_execute)
         /\ ~Cancelled =>
              /\ \A j \in 1..Len(to_execute) :
                    Outcomes(suggestions[to_execute[j]].original_path) = 1
              /\ exec_result[1].executed = Len(executed_moves)
              /\ exec_result[1].failed = Len(failed_moves)
              /\ exec_result[1].skipped = Len(skipped_moves)

\* a batch has returned in which a suggestion failed and a later one moved
C5_Witness ==
    /\ exec_result # <<>>
    /\ \E j, k \in 1..Len(to_execute) :
         /\ j < k
         /\ \E x \in 1..Len(failed_moves) :
              failed_moves[x].original_path = suggestions[to_execute[j]].original_path
         /\ \E y \in 1..Len(executed_moves) :
              executed_moves[y].original_path = suggestions[to_execute[k]].original_path

\* C6 (as stated): after Analyze, neither the original path nor the proposed
\* path of any suggestion begins with the relative path of a folder the scan
\* found protected.
C6_Protection ==
    (pc = "analyzed" /\ reviews = 0) =>
      \A i \in 1..Len(suggestions) : \A k \in 1..Len(protected_found) :
         /\ ~IsPrefix(SplitPath(protected_found[k]), SplitPath(suggestions[i].original_path))
         /\ ~IsPrefix(SplitPath(protected_found[k]), SplitPath(suggestions[i].suggested_path))

\* C7: an Undo invoked while the ledger path does not exist, from the command
\* line or over HTTP, returns an error result that is not a success, moves
\* no file and removes no directory.
C7_MissingLedger ==
    [][ (rollback_file = <<>> /\ pc \in {"executed", "undone"}) =>
          /\ fs' = fs
          /\ pc' = "undone"
          /\ undo_done' = undo_done
          /\ undo_result' # <<>>
          /\ ~undo_result'[1].success
          /\ undo_result'[1].error \in {"file_not_found", "Rollback file not found"}
          /\ undo_result'[1].undone = 0 ]_vars

\* after a batch that moved a file and the loss of its ledger, an Undo over
\* HTTP has returned its error and the file is still where it was moved to
C7_Witness ==
    /\ pc = "undone"
    /\ rollback_file = <<>>
    /\ undo_result = <<HttpLedgerMissing>>
    /\ executed_moves # <<>>
    /\ \A k \in 1..Len(executed_moves) : IsFile(fs, executed_moves[k].new_abs)

\* C8: the k-th ledger entry an Undo looks at is the k-th from the end of
\* the ledger's list of moves.
C8_ReverseOrder ==
    pc = "undoing" =>
      /\ Len(undo_log) = undo_pos - 1
      /\ \A k \in 1..Len(undo_log) :
            undo_log[k] = rollback_file[1].moves[Len(rollback_file[1].moves) + 1 - k]

\* an Undo has looked at both entries of a ledger of two different moves
C8_Witness ==
    /\ pc = "undoing"
    /\ Len(rollback_file[1].moves) = 2
    /\ Len(undo_log) = 2
    /\ undo_log[1] = rollback_file[1].moves[2]
    /\ undo_log[2] = rollback_file[1].moves[1]
    /\ undo_log[1] # undo_log[2]

\* C9: while a batch runs, the executed list grows exactly in the steps that
\* move a file, by one entry put at its end; the entry names the suggestion
\* being processed and its new path is the path where the file lies right
\* after the move: the suffixed path if a collision was found, the planned
\* path otherwise.  Steps that fail or skip add nothing to it.
C9_LedgerEntries ==
    [][ (pc \in {"moving", "attempt"}) =>
         (IF \E p \in FilesAt(fs) : p \notin DOMAIN fs' \/ fs'[p] # fs[p]
          THEN LET s   == suggestions[to_execute[idx]]
                   src == SplitPath(s.original_path)
                   e   == executed_moves'[Len(executed_moves')]
               IN  /\ Len(executed_moves') = Len(executed_moves) + 1
                   /\ SubSeq(executed_moves', 1, Len(executed_moves)) = executed_moves
                   /\ e.original_path = s.original_path
                   /\ src \notin DOMAIN fs'
                   /\ IsFile(fs', SplitPath(e.new_path))
                   /\ fs'[SplitPath(e.new_path)] = fs[src]
                   /\ e.new_path = IF s.final_path # "" THEN s.final_path
                                   ELSE s.suggested_path
                   /\ failed_moves' = failed_moves
                   /\ skipped_moves' = skipped_moves
          ELSE executed_moves' = executed_moves) ]_vars

\* a batch has returned with one move on a suffixed path in its executed
\* list and another suggestion in its failed or skipped list
C9_Witness ==
    /\ pc = "executed"
    /\ Len(executed_moves) = 1
    /\ Len(failed_moves) + Len(skipped_moves) = 1
    /\ IsFile(fs, executed_moves[1].new_abs)
    /\ \E i \in 1..Len(suggestions) :
         /\ suggestions[i].original_path = executed_moves[1].original_path
         /\ suggestions[i].suggested_path # executed_moves[1].new_path

Range(seq) == {seq[k] : k \in 1..Len(seq)}

\* C10: the suggestions a batch selects are those that pass some category and
\* year filter and have move_required set; until the batch returns, the file
\* of every other suggestion stays at its path and that suggestion is in none
\* of the three lists.
C10_OnlySelected ==
    /\ [][ (pc = "analyzed" /\ pc' # "analyzed") =>
             \E cf \in CategoryFilters, yf \in YearFilters :
                Range(to_execute') =
                  {i \in 1..Len(suggestions) :
                      /\ cf = "" \/ suggestions[i].category = cf
                      /\ yf = "" \/ suggestions[i].year = yf
                      /\ suggestions[i].move_required} ]_vars
    /\ [](pc \in {"moving", "attempt", "executed"} =>
            \A i \in 1..Len(suggestions) :
               i \notin Range(to_execute) =>
                 LET p == SplitPath(suggestions[i].original_path)
                 IN  /\ p \in DOMAIN fs_planned => (p \in DOMAIN fs /\ fs[p] = fs_planned[p])
                     /\ Outcomes(suggestions[i].original_path) = 0)

\* a batch has returned that moved a file and left alone a suggestion that
\* asks for a move but did not pass the filters, and one that asks for none
C10_Witness ==
    /\ pc = "executed"
    /\ executed_moves # <<>>
    /\ \E i \in 1..Len(suggestions) :
         /\ i \notin Range(to_execute)
         /\ suggestions[i].move_required
         /\ IsFile(fs, SplitPath(suggestions[i].original_path))

(***************************************************************************)
(* Properties of the scan.                                                 *)
(***************************************************************************)
Scanned == pc \in {"analyzed", "reanalyzed"} /\ scan_args # <<>>

\* the directory d is one the scanner does not enter, whatever it holds
Refused(d) ==
    \/ StartsWith(Basename(d), ".")
    \/ Basename(d) \in protected_folders
    \/ Len(d) = 2 /\ (d[1] \o "/" \o d[2]) \in protected_folders

\* the rule under which a refused directory is put on the protected-found list
Listed(d) ==
    \/ Len(d) = 1 /\ d[1] \in protected_folders
    \/ Len(d) = 2 /\ (d[1] \o "/" \o d[2]) \in protected_folders

\* the scanner lists the entries of directory d, which lies at depth Len(d)
Visited(d) ==
    /\ IsDir(fs, d)
    /\ Len(d) <= scan_args[1].max_depth
    /\ \A k \in 0..Len(d) : SubSeq(d, 1, k) \notin unreadable
    /\ \A k \in 1..Len(d) : ~Refused(SubSeq(d, 1, k))

\* the scanner meets d as an entry of a directory it lists
Met(d) == Len(d) >= 1 /\ Visited(Parent(d))

\* the scanner cannot tell whether the entry p is a directory
TypeUnread(p) == IsFile(fs, p) /\ meta[fs[p]].stat_error = "is_dir"

RecordedPaths == {files_analyzed[i].rel_path : i \in 1..Len(files_analyzed)}

FoundPaths == {protected_found[i] : i \in 1..Len(protected_found)}

InodeOf(i) == fs[SplitPath(files_analyzed[i].rel_path)]

\* what the i-th file record owes to its category's byte total
Contribution(i) ==
    IF meta[InodeOf(i)].stat_error = "lstat" THEN 0
    ELSE IF meta[InodeOf(i)].is_symlink THEN 0
    ELSE IF \E j \in 1..(i - 1) : InodeOf(j) = InodeOf(i) THEN 0
    ELSE meta[InodeOf(i)].size

RECURSIVE CategoryBytes(_, _)
CategoryBytes(c, n) ==
    IF n = 0 THEN 0
    ELSE CategoryBytes(c, n - 1)
         + (IF files_analyzed[n].category = c THEN Contribution(n) ELSE 0)

\* C12: after a scan the byte total of every category is the sum, over the
\* file records of that category in the order they were visited, of the
\* file's size at the first record of its inode and of zero at every later
\* record of the same inode, at every symbolic link and at every file whose
\* lstat() fails; the count of the
\* category is the number of its records.
C12_SizeAccounting ==
    Scanned =>
      \A c \in DOMAIN category_stats :
         /\ category_stats[c].size = CategoryBytes(c, Len(files_analyzed))
         /\ category_stats[c].count =
              Cardinality({i \in 1..Len(files_analyzed) : files_analyzed[i].category = c})

\* a scan has recorded two names of one hard-linked file, which is no
\* symbolic link, and has counted its size once
C12_Witness ==
    /\ Scanned
    /\ Len(files_analyzed) = 2
    /\ InodeOf(1) = InodeOf(2)
    /\ ~meta[InodeOf(1)].is_symlink
    /\ files_analyzed[1].category = files_analyzed[2].category
    /\ category_stats[files_analyzed[1].category].size = meta[InodeOf(1)].size
    /\ category_stats[files_analyzed[1].category].count = 2

\* C13: cleaning a file name that clean_filename returned gives that name
\* again: clean_filename(clean_filename(x)) = clean_filename(x).
C13_Idempotent ==
    Len(cleaned) >= 2 => cleaned[2] = cleaned[1]

\* C14: a second analysis of an unchanged tree with the same parameters
\* returns the ordered suggestion list, the category statistics and the
\* year statistics of the first, whatever order the directories list their
\* entries in.
C14_Deterministic ==
    pc = "reanalyzed" =>
       /\ suggestions = previous[1].suggestions
       /\ category_stats = previous[1].category_stats
       /\ year_stats = previous[1].year_stats

\* the suggestion list is in ascending order of its sort key
SortedByKey(list) == \A i \in 1..(Len(list) - 1) : KeyLeq(list[i], list[i + 1])

\* a selected suggestion has an outcome only when every selected one before
\* it has
TakenInListOrder ==
    \A j, k \in 1..Len(to_execute) :
       (j < k /\ Outcomes(suggestions[to_execute[k]].original_path) > 0)
          => Outcomes(suggestions[to_execute[j]].original_path) > 0

\* C15: whenever the suggestion list is written it is in ascending order of
\* (category, year label, original name), every adjacent pair being in
\* order; a batch takes the selected suggestions in the order of the list,
\* a later one having an outcome only when every selected one before it has.
C15_SortedOrder ==
    [][ /\ (suggestions' # suggestions) => SortedByKey(suggestions')
        /\ (to_execute' # to_execute) =>
              \A j \in 1..(Len(to_execute') - 1) :
                 /\ to_execute'[j] < to_execute'[j + 1]
                 /\ KeyLeq(suggestions'[to_execute'[j]], suggestions'[to_execute'[j + 1]])
        /\ TakenInListOrder' ]_vars

\* the scan met a video before a document; the report lists the document
\* first and the batch has moved the document first, then the video
C15_Witness ==
    /\ exec_result # <<>>
    /\ Len(files_analyzed) = 2
    /\ Len(suggestions) = 2
    /\ files_analyzed[1].category = "Videos"
    /\ suggestions[1].category = "Documents"
    /\ suggestions[2].original_path = files_analyzed[1].rel_path
    /\ Len(executed_moves) = 2
    /\ executed_moves[1].original_path = suggestions[1].original_path
    /\ executed_moves[2].original_path = suggestions[2].original_path

\* C16: the root is at depth 0 and a directory at depth d holds its
\* sub-directories at depth d + 1; after a scan every file record is of a
\* file whose directory lies at a depth of at most max_depth, and directories
\* below that depth do not make the scan fail: every file the scanner is to
\* record within the bound is recorded.
C16_DepthBound ==
    Scanned =>
      /\ \A r \in RecordedPaths : Len(SplitPath(r)) - 1 <= scan_args[1].max_depth
      /\ \A p \in FilesAt(fs) :
            ( /\ Len(p) - 1 <= scan_args[1].max_depth
              /\ Visited(Parent(p))
              /\ ~StartsWith(Basename(p), ".")
              /\ ~TypeUnread(p) )
               => JoinPath(p) \in RecordedPaths

\* a scan bounded at depth 2 has recorded a file of a directory at depth 2
\* and no file of the directory at depth 3 below it
C16_Witness ==
    /\ Scanned
    /\ scan_args[1].max_depth = 2
    /\ IsFile(fs, <<"proj", "src", "deep", "e.py">>)
    /\ IsFile(fs, <<"proj", "src", "d.py">>)
    /\ RecordedPaths = {"proj/src/d.py"}

\* the tree f with nothing inside the directories of the set dirs
Emptied(f, dirs) ==
    [p \in {q \in DOMAIN f : \A k \in 0..(Len(q) - 1) : SubSeq(q, 1, k) \notin dirs}
       |-> f[p]]

\* C17: when the listing of a directory fails, the scan returns what a scan
\* of the same tree with that directory empty and readable returns: no
\* record from its subtree, and the records, protected-found list and
\* statistics of every other reachable directory.
C17_ListingFailure ==
    (Scanned /\ unreadable # {}) =>
       \E order \in {"asc", "desc"} :
          Report = analyze(Emptied(fs, unreadable), meta, protected_folders, {},
                           scan_args[1].max_depth, order, scan_args[1].group_old)

\* a scan has passed the unreadable directory proj, which holds a file, and
\* has recorded the file beside it and nothing else
C17_Witness ==
    /\ Scanned
    /\ unreadable = {<<"proj">>}
    /\ IsFile(fs, <<"proj", "notes.txt">>)
    /\ IsFile(fs, <<"clip.mp4">>)
    /\ RecordedPaths = {"clip.mp4"}

\* the step in which an undo that ran its loop cleans up and returns
CleanupStep == pc = "undoing" /\ pc' = "undone"

\* C18: the cleanup pass of an undo deletes no file and changes none; every
\* path it removes is a directory in the subtree of a category-named
\* directory of the root (that directory included) which holds no file and
\* whose sub-directories are all removed with it, so that it is empty when it
\* is removed; the pass succeeds whether or not the category directories
\* exist.
C18_CleanupOnlyEmptyDirs ==
    [][ CleanupStep =>
          /\ DOMAIN fs' \subseteq DOMAIN fs
          /\ \A p \in DOMAIN fs' : fs'[p] = fs[p]
          /\ FilesAt(fs') = FilesAt(fs)
          /\ \A d \in DOMAIN fs \ DOMAIN fs' :
                /\ IsDir(fs, d)
                /\ Len(d) >= 1
                /\ d[1] \in CategoryNames
                /\ IsDir(fs, <<d[1]>>)
                /\ \A q \in DOMAIN fs : IsPrefix(d, q) => q \notin DOMAIN fs'
          /\ undo_result' # <<>>
          /\ undo_result'[1].success ]_vars

\* an undo has returned after its cleanup removed the folder Videos, which
\* the batch had created, and kept the folder Documents/2023 with the file
\* that was there before; no folder Other ever existed
C18_Witness ==
    /\ pc = "undone"
    /\ undo_result # <<>>
    /\ undo_result[1].success
    /\ undo_result[1].undone >= 1
    /\ \E k \in 1..Len(executed_moves) : executed_moves[k].new_abs[1] = "Videos"
    /\ <<"Videos">> \notin DOMAIN fs
    /\ <<"Other">> \notin DOMAIN fs
    /\ IsFile(fs, <<"Documents", "2023", "a.txt">>)
    /\ IsFile(fs_planned, <<"Documents", "2023", "a.txt">>)

\* the path of the n-th numbered name beside path: stem (n).ext
Numbered(path, n) ==
    Append(Parent(path),
           PathStem(Basename(path)) \o " (" \o ToString(n) \o ")" \o PathSuffix(Basename(path)))

\* C20: when a move is prepared and its planned destination stem.ext exists,
\* the destination chosen is stem (n).ext in the same directory, for the
\* smallest n >= 1 whose path does not exist, and it is noted as the final
\* path of the suggestion; when the move then succeeds, that is the path the
\* file is at and the ledger records.
C20_CollisionSuffix ==
    [][ /\ ( /\ pc = "moving"
             /\ pc' = "attempt"
             /\ Exists(fs, SplitPath(suggestions[to_execute[idx]].suggested_path)) )
           => LET planned == SplitPath(suggestions[to_execute[idx]].suggested_path)
              IN  /\ \E n \in 1..Cardinality(DOMAIN fs) :
                        /\ target_abs' = Numbered(planned, n)
                        /\ ~Exists(fs, Numbered(planned, n))
                        /\ \A m \in 1..(n - 1) : Exists(fs, Numbered(planned, m))
                  /\ suggestions'[to_execute[idx]].final_path = JoinPath(target_abs')
        /\ ( /\ pc = "attempt"
             /\ Len(executed_moves') = Len(executed_moves) + 1 )
           => /\ executed_moves'[Len(executed_moves')].new_abs = target_abs
              /\ IsFile(fs', target_abs) ]_vars

\* with Documents/2023/a.txt present, the file a.txt of the root has been
\* moved to Documents/2023/a (1).txt
C20_Witness ==
    /\ IsFile(fs_planned, <<"Documents", "2023", "a.txt">>)
    /\ IsFile(fs_planned, <<"a.txt">>)
    /\ \E k \in 1..Len(executed_moves) :
          /\ executed_moves[k].original_path = "a.txt"
          /\ executed_moves[k].new_path = "Documents/2023/a (1).txt"
    /\ IsFile(fs, <<"Documents", "2023", "a (1).txt">>)
    /\ IsFile(fs, <<"Documents", "2023", "a.txt">>)

\* C19: the server keeps no operation out while another runs.  An execute
\* request is turned down only when there is no report, and an undo request
\* only when the ledger it names does not exist, whatever the threads are
\* doing; a thread checks that its destination is free in one step and moves
\* in a later one, so that the path it moves to was free when checked but
\* need not be when the move is made.
C19_NoMutualExclusion ==
    [][ /\ \A t \in Threads :
              /\ (threads[t].pc = "idle" /\ threads'[t].pc = "rejected")
                    => current_report = <<>>
              /\ (threads[t].pc = "idle" /\ threads'[t].pc # "idle" /\ current_report # <<>>)
                    => threads'[t].pc = "moving"
              /\ (threads[t].pc = "moving" /\ threads'[t].pc = "attempt")
                    => ~Exists(fs, threads'[t].target_abs)
        /\ (undoer.pc = "idle" /\ undoer'.pc = "rejected")
              => \E t \in Threads : threads[t].ledger = <<>>
        /\ (undoer.pc = "idle" /\ undoer'.pc # "idle"
                               /\ \A t \in Threads : threads[t].ledger # <<>>)
              => undoer'.pc = "undoing" ]_vars

\* two batches are running at once, each has moved a file of its own to the
\* same path, and the file that landed there first is on no path any more
C19_Witness ==
    \E t, u \in Threads :
        /\ t # u
        /\ threads[t].pc \in {"moving", "attempt"}
        /\ threads[u].pc \in {"moving", "attempt"}
        /\ \E x \in 1..Len(threads[t].executed_moves),
              y \in 1..Len(threads[u].executed_moves) :
              /\ threads[t].executed_moves[x].new_abs = threads[u].executed_moves[y].new_abs
              /\ threads[t].executed_moves[x].original_abs
                    # threads[u].executed_moves[y].original_abs
        /\ \E i \in DOMAIN meta : \A p \in DOMAIN fs : fs[p] # i

\* C21: the move of one suggestion is attempted at most 3 times.  An attempt
\* that succeeds appends exactly one ledger entry, for that suggestion, and
\* ends its processing; an attempt that raises is followed by the next one,
\* except the third, which appends the suggestion to the failed list exactly
\* once, with the error of the third attempt, appends no ledger entry and
\* leaves the tree as it was.
C21_BoundedRetry ==
    [][ (pc = "attempt") =>
          LET s == suggestions[to_execute[idx]]
          IN  /\ attempt \in 0..2
              /\ executed_moves' # executed_moves =>
                    /\ Len(executed_moves') = Len(executed_moves) + 1
                    /\ SubSeq(executed_moves', 1, Len(executed_moves)) = executed_moves
                    /\ executed_moves'[Len(executed_moves')].original_path = s.original_path
                    /\ failed_moves' = failed_moves
                    /\ idx' = idx + 1
                    /\ pc' = "moving"
              /\ failed_moves' # failed_moves =>
                    /\ attempt = 2
                    /\ Len(failed_moves') = Len(failed_moves) + 1
                    /\ SubSeq(failed_moves', 1, Len(failed_moves)) = failed_moves
                    /\ failed_moves'[Len(failed_moves')].original_path = s.original_path
                    /\ failed_moves'[Len(failed_moves')].error = "move 3"
                    /\ executed_moves' = executed_moves
                    /\ fs' = fs
                    /\ idx' = idx + 1
                    /\ pc' = "moving"
              /\ (executed_moves' = executed_moves /\ failed_moves' = failed_moves
                    /\ attempt' # attempt) =>
                    /\ attempt' = attempt + 1
                    /\ attempt' <= 2
                    /\ idx' = idx
                    /\ pc' = "attempt"
                    /\ fs' = fs ]_vars

\* a move has raised twice and succeeded at the third attempt: the file is at
\* its destination and the last ledger entry is its own
C21_Witness ==
    /\ pc = "moving"
    /\ idx >= 2
    /\ attempt = 2
    /\ Len(executed_moves) >= 1
    /\ executed_moves[Len(executed_moves)].original_path
          = suggestions[to_execute[idx - 1]].original_path
    /\ IsFile(fs, executed_moves[Len(executed_moves)].new_abs)

\* C22: when the creation of the destination's directory fails, the
\* suggestion is appended to the failed list once, at once: the executor goes
\* on to the next suggestion without entering the retry loop, no file is
\* moved, the source stays at its original path and no ledger entry is
\* appended; the retry loop is only entered with the directory in place.
C22_MkdirFailure ==
    [][ /\ (pc = "moving" /\ failed_moves' # failed_moves) =>
              LET s == suggestions[to_execute[idx]]
              IN  /\ Len(failed_moves') = Len(failed_moves) + 1
                  /\ SubSeq(failed_moves', 1, Len(failed_moves)) = failed_moves
                  /\ failed_moves'[Len(failed_moves')].original_path = s.original_path
                  /\ failed_moves'[Len(failed_moves')].error = "mkdir"
                  /\ executed_moves' = executed_moves
                  /\ skipped_moves' = skipped_moves
                  /\ pc' = "moving"
                  /\ idx' = idx + 1
                  /\ attempt' = attempt
                  /\ FilesAt(fs') = FilesAt(fs)
                  /\ \A p \in FilesAt(fs) : fs'[p] = fs[p]
                  /\ IsFile(fs', SplitPath(s.original_path))
        /\ (pc = "moving" /\ pc' = "attempt") =>
              /\ \A q \in Prefixes(Parent(target_abs')) : IsDir(fs', q)
              /\ failed_moves' = failed_moves ]_vars

\* the folder Videos could not be created because a file of that name is in
\* the way: the video is on the failed list, still at its original path, and
\* nothing was moved
C22_Witness ==
    /\ exec_result # <<>>
    /\ IsFile(fs, <<"Videos">>)
    /\ IsFile(fs, <<"m.mp4">>)
    /\ executed_moves = <<>>
    /\ Len(failed_moves) = 1
    /\ failed_moves[1].original_path = "m.mp4"
    /\ failed_moves[1].error = "mkdir"
    /\ faults = 0

\* C23: a suggestion whose original path does not exist when its turn comes
\* is appended to the skipped list, once, with the reason source_not_found,
\* and to no other list; the step changes nothing on disk: no directory is
\* created and no file is moved.  Nothing else is ever skipped.
C23_SourceMissing ==
    [][ /\ ( /\ pc = "moving"
             /\ idx <= Len(to_execute)
             /\ ~Exists(fs, SplitPath(suggestions[to_execute[idx]].original_path))
             /\ <<pc, idx, fs, failed_moves, skipped_moves>>'
                   # <<pc, idx, fs, failed_moves, skipped_moves>> )
           => /\ Len(skipped_moves') = Len(skipped_moves) + 1
              /\ SubSeq(skipped_moves', 1, Len(skipped_moves)) = skipped_moves
              /\ skipped_moves'[Len(skipped_moves')].original_path
                    = suggestions[to_execute[idx]].original_path
              /\ skipped_moves'[Len(skipped_moves')].reason = "source_not_found"
              /\ fs' = fs
              /\ executed_moves' = executed_moves
              /\ failed_moves' = failed_moves
              /\ idx' = idx + 1
              /\ pc' = "moving"
        /\ (skipped_moves' # skipped_moves) =>
              /\ pc = "moving"
              /\ ~Exists(fs, SplitPath(suggestions[to_execute[idx]].original_path)) ]_vars

\* a file was removed by someone else after the scan; the batch has skipped
\* its suggestion, and the tree is as it was when the batch began
C23_Witness ==
    /\ exec_result # <<>>
    /\ external = 1
    /\ Len(to_execute) = 1
    /\ Len(skipped_moves) = 1
    /\ skipped_moves[1].original_path = suggestions[to_execute[1]].original_path
    /\ skipped_moves[1].reason = "source_not_found"
    /\ fs = fs_planned
    /\ executed_moves = <<>>
    /\ failed_moves = <<>>

\* the refusal rule as the claim C24 states it
RefusedByTier(d) ==
    \/ Len(d) = 1 /\ d[1] \in protected_folders
    \/ Len(d) = 2 /\ (d[1] \o "/" \o d[2]) \in protected_folders
    \/ StartsWith(Basename(d), ".")

\* the files that show whether the scanner entered their directory: files
\* that are not hidden, whose type can be read, in a readable directory
\* within the depth bound that the scanner met
Telling == {p \in FilesAt(fs) :
              /\ ~StartsWith(Basename(p), ".")
              /\ ~TypeUnread(p)
              /\ Len(p) >= 2
              /\ Met(Parent(p))
              /\ Len(p) - 1 <= scan_args[1].max_depth
              /\ Parent(p) \notin unreadable}

\* C24 (as stated): the scanner refuses a directory it meets exactly when the
\* directory is at depth 0 with its name in the protection set, or at depth 1
\* with parentName/name in the set, or has a name starting with ".".
C24_RefusedByTierOnly ==
    Scanned =>
      \A p \in Telling : (JoinPath(p) \notin RecordedPaths) <=> RefusedByTier(Parent(p))

\* C24 (amended): the scanner refuses a directory it meets exactly when its
\* name starts with ".", or its name is in the protection set, at whatever
\* depth, or it is at depth 1 with parentName/name in the set.  Protecting
\* Parent/Child does not protect a directory named Child elsewhere.
C24_RefusedExactly ==
    Scanned =>
      \A p \in Telling :
         /\ (JoinPath(p) \notin RecordedPaths) <=> Refused(Parent(p))
         /\ ("src/deep" \in protected_folders /\ p = <<"proj", "src", "deep", "e.py">>)
               => JoinPath(p) \in RecordedPaths

\* with the name src protected, the scanner has entered proj and recorded
\* its file, and has refused proj/src, which lies at depth 1
C24_Witness ==
    /\ Scanned
    /\ "src" \in protected_folders
    /\ <<"proj", "src", "d.py">> \in Telling
    /\ IsFile(fs, <<"proj", "notes.txt">>)
    /\ RecordedPaths = {"proj/notes.txt"}

\* C25: in the report of an analysis, before any review, there are as many
\* suggestions as file records and every file record has exactly one, whose
\* proposed path is category/year/sanitized name, whose rename flag says
\* whether the sanitized name differs from the name, and whose move flag says
\* whether the proposed path differs from the file's relative path.
C25_OneSuggestionPerRecord ==
    (pc = "analyzed" /\ reviews = 0) =>
       /\ Len(suggestions) = Len(files_analyzed)
       /\ \A i \in 1..Len(files_analyzed) :
             LET r    == files_analyzed[i]
                 mine == {j \in 1..Len(suggestions) :
                             suggestions[j].original_path = r.rel_path}
             IN  /\ Cardinality(mine) = 1
                 /\ \A j \in mine :
                       /\ suggestions[j].original_name = r.name
                       /\ suggestions[j].category = r.category
                       /\ suggestions[j].year = r.year
                       /\ suggestions[j].suggested_name = clean_filename(r.name)
                       /\ suggestions[j].suggested_path
                             = r.category \o "/" \o r.year \o "/" \o clean_filename(r.name)
                       /\ suggestions[j].rename_suggested = (clean_filename(r.name) # r.name)
                       /\ suggestions[j].move_required
                             = (suggestions[j].suggested_path # r.rel_path)

\* a report with a suggestion that renames b_c.txt to "b c.txt" and one for a
\* file that is in its place already and needs no move
C25_Witness ==
    /\ pc = "analyzed"
    /\ reviews = 0
    /\ Len(files_analyzed) = 2
    /\ \E j, k \in 1..Len(suggestions) :
          /\ suggestions[j].original_path = "b_c.txt"
          /\ suggestions[j].rename_suggested
          /\ suggestions[j].suggested_name = "b c.txt"
          /\ suggestions[j].move_required
          /\ suggestions[k].original_path = "Documents/2023/a.txt"
          /\ ~suggestions[k].move_required
          /\ ~suggestions[k].rename_suggested

\* the number of file records made for the file at path q
RecordsOf(q) ==
    Cardinality({i \in 1..Len(files_analyzed) : files_analyzed[i].rel_path = JoinPath(q)})

\* C26 as stated: after a scan a hidden file of an entered directory has no
\* file record and every other file of an entered directory has exactly one,
\* also when reading its metadata fails.
C26_EveryFileRecorded ==
    Scanned =>
      \A q \in DOMAIN fs :
         (IsFile(fs, q) /\ Visited(Parent(q))) =>
            RecordsOf(q) = IF StartsWith(Basename(q), ".") THEN 0 ELSE 1

\* C26: after a scan a hidden file of an entered directory has no file
\* record; a file whose is_dir() check raises has none either; every other
\* file of an entered directory has exactly one record, and when its lstat()
\* and stat() fail that record has size 0, year "Unknown" and is no symbolic
\* link.
C26_OneRecordPerReadFile ==
    Scanned =>
      \A q \in DOMAIN fs :
         (IsFile(fs, q) /\ Visited(Parent(q))) =>
            /\ RecordsOf(q) =
                 IF StartsWith(Basename(q), ".") \/ TypeUnread(q) THEN 0 ELSE 1
            /\ meta[fs[q]].stat_error = "lstat" =>
                 \A i \in 1..Len(files_analyzed) :
                    files_analyzed[i].rel_path = JoinPath(q) =>
                       /\ files_analyzed[i].size = 0
                       /\ files_analyzed[i].year = "Unknown"
                       /\ ~files_analyzed[i].is_symlink

\* a scan of the top level has made one record, of size 0 and year "Unknown",
\* for notes.txt whose lstat() fails, and none for .hidden.txt beside it
C26_Witness ==
    /\ Scanned
    /\ IsFile(fs, <<"notes.txt">>)
    /\ meta[fs[<<"notes.txt">>]].stat_error = "lstat"
    /\ IsFile(fs, <<".hidden.txt">>)
    /\ Visited(<<>>)
    /\ RecordsOf(<<"notes.txt">>) = 1
    /\ RecordsOf(<<".hidden.txt">>) = 0
    /\ \E i \in 1..Len(files_analyzed) :
          /\ files_analyzed[i].rel_path = "notes.txt"
          /\ files_analyzed[i].size = 0
          /\ files_analyzed[i].year = "Unknown"

\* C27: while an undo replays a ledger, a pass of its loop examines the next
\* entry in reverse order and counts it in exactly one of undone, failed and
\* passed by for an absent new path, and the replay goes on whatever the
\* outcome; the undo returns only when every entry was examined once, its
\* three counts then add up to the number of ledger entries, the cleanup has
\* run (no empty directory is left below a category folder, no file is
\* touched) and the counts of undone and failed are the ones it returns.
C27_UndoRecoversLocally ==
    [][ (pc = "undoing") =>
          LET moves == rollback_file[1].moves
          IN  /\ pc' \in {"undoing", "undone"}
              /\ (pc' = "undoing") =>
                   /\ undo_pos <= Len(moves)
                   /\ undo_pos' = undo_pos + 1
                   /\ undo_log' = Append(undo_log, moves[Len(moves) + 1 - undo_pos])
                   /\ undone' >= undone
                   /\ undo_failed' >= undo_failed
                   /\ undo_absent' >= undo_absent
                   /\ undone' + undo_failed' + undo_absent'
                        = undone + undo_failed + undo_absent + 1
                   /\ (undo_absent' > undo_absent)
                        <=> ~Exists(fs, moves[Len(moves) + 1 - undo_pos].new_abs)
              /\ (pc' = "undone") =>
                   /\ undo_pos = Len(moves) + 1
                   /\ Len(undo_log) = Len(moves)
                   /\ \A k \in 1..Len(moves) : undo_log[k] = moves[Len(moves) + 1 - k]
                   /\ undone + undo_failed + undo_absent = Len(moves)
                   /\ undo_result' = <<UndoResult(TRUE, "", undone, undo_failed)>>
                   /\ ~EmptyDirUnderCategory(fs')
                   /\ FilesAt(fs') = FilesAt(fs)
                   /\ \A q \in FilesAt(fs) : fs'[q] = fs[q] ]_vars

\* the replay of a ledger of two moves has examined both: the entry it took
\* first failed and its file is still at its new path, the entry it took
\* next was reversed and its file is back at its original path
C27_Witness ==
    /\ pc = "undoing"
    /\ Len(rollback_file[1].moves) = 2
    /\ undo_pos = 3
    /\ undo_failed = 1
    /\ undone = 1
    /\ undo_absent = 0
    /\ IsFile(fs, rollback_file[1].moves[2].new_abs)
    /\ ~Exists(fs, rollback_file[1].moves[2].original_abs)
    /\ IsFile(fs, rollback_file[1].moves[1].original_abs)
    /\ ~Exists(fs, rollback_file[1].moves[1].new_abs)

\* C28: an execute() whose selection is empty returns at once with executed,
\* failed and skipped all 0; it moves no file, creates no directory and
\* writes no ledger file.
C28_EmptySelection ==
    [][ (pc = "analyzed" /\ pc' # "analyzed" /\ to_execute' = <<>>) =>
          /\ pc' = "executed"
          /\ exec_result' # <<>>
          /\ exec_result'[1].executed = 0
          /\ exec_result'[1].failed = 0
          /\ exec_result'[1].skipped = 0
          /\ ~exec_result'[1].rollback_file
          /\ fs' = fs
          /\ rollback_file' = rollback_file
          /\ saves' = saves
          /\ executed_moves' = executed_moves ]_vars

\* execute() has returned three zeros for a filter that selects none of the
\* suggestions of a report in which a file needs moving; the tree is the one
\* it was called on and there is no ledger file
C28_Witness ==
    /\ pc = "executed"
    /\ to_execute = <<>>
    /\ \E i \in 1..Len(suggestions) : suggestions[i].move_required
    /\ exec_result = <<[executed |-> 0, failed |-> 0, skipped |-> 0, rollback_file |-> FALSE]>>
    /\ fs = fs_planned
    /\ rollback_file = <<>>
    /\ saves = 0

\* the directory d of tree f holds nothing
EmptyDir(f, d) == IsDir(f, d) /\ ~\E q \in DOMAIN f : q # d /\ IsPrefix(d, q)

\* C29: a directory that lay empty below a category-named directory of the
\* root when execute() was called is still there after that Execute and an
\* Undo of its ledger, no file-system error occurring in either.
C29_PreexistingDirKept ==
    (pc = "undone" /\ undo_done # <<>> /\ faults = 0) =>
       \A d \in DOMAIN fs_planned :
          ( /\ Len(d) >= 2
            /\ d[1] \in CategoryNames
            /\ EmptyDir(fs_planned, d) )
          => IsDir(fs, d)

\* the paths of tree f at which the file of identity v lies
PathsOf(f, v) == {q \in FilesAt(f) : f[q] = v}

\* C30: while a batch runs and when it has returned, no one else having
\* changed the tree since the scan, every file that was there when execute()
\* was called lies at exactly one path, which is its original path or the
\* new path of a ledger entry made for it; no other file has appeared, so no
\* file was overwritten or removed.
C30_NoDataLoss ==
    (pc \in {"moving", "attempt", "executed"} /\ external = 0) =>
       /\ \A p \in FilesAt(fs_planned) :
             /\ Cardinality(PathsOf(fs, fs_planned[p])) = 1
             /\ \A q \in PathsOf(fs, fs_planned[p]) :
                   \/ q = p
                   \/ \E k \in 1..Len(executed_moves) :
                         /\ executed_moves[k].original_abs = p
                         /\ executed_moves[k].new_abs = q
       /\ Cardinality(FilesAt(fs)) = Cardinality(FilesAt(fs_planned))

\* a batch has returned after two moves, the second of which found its
\* planned destination taken by the first and went to a numbered name: both
\* files are there, each at the new path of its ledger entry
C30_Witness ==
    /\ pc = "executed"
    /\ external = 0
    /\ Len(executed_moves) = 2
    /\ executed_moves[2].new_path # suggestions[to_execute[2]].suggested_path
    /\ \A k \in 1..2 :
          /\ IsFile(fs, executed_moves[k].new_abs)
          /\ ~Exists(fs, executed_moves[k].original_abs)
          /\ fs[executed_moves[k].new_abs] = fs_planned[executed_moves[k].original_abs]

\* the file identities found in tree f
Identities(f) == {f[q] : q \in FilesAt(f)}

\* C31: a pass of the undo loop that reverses a ledger entry replaces or
\* loses no file: every file of the tree before the pass is in the tree
\* after it.
C31_UndoNeverOverwrites ==
    [][ (pc = "undoing" /\ undone' = undone + 1) =>
           Identities(fs) \subseteq Identities(fs') ]_vars

\* C32: a batch that writes its ledger creates a file: the name it writes
\* to is not the name of a ledger file that an earlier batch on the same
\* root has written.
C32_LedgersDistinct ==
    [][ \A t \in Threads :
           (threads[t].pc # "done" /\ threads'[t].pc = "done" /\ threads'[t].ledger # <<>>)
           => threads'[t].ledger[1] \notin DOMAIN ledger_files ]_vars

\* C33: every file that a batch of the server has moved, whatever list it
\* was handed, lies at a path inside the root, below the folder of its
\* suggestion's category and year.
C33_Containment ==
    \A t \in Threads :
       \A k \in 1..Len(threads[t].executed_moves) :
          LET m == threads[t].executed_moves[k]
          IN  /\ \A j \in 1..Len(m.new_abs) : m.new_abs[j] # ".."
              /\ \E i \in 1..Len(ThreadList(t)) :
                    /\ ThreadList(t)[i].original_path = m.original_path
                    /\ IsPrefix(<<ThreadList(t)[i].category, ThreadList(t)[i].year>>,
                                m.new_abs)

\* C34: the command-line undo, its prompt answered with yes, leaves the tree
\* and reports the counts that the HTTP handler leaves and reports for the
\* same ledger and tree.  The two run the same loop; the handler ends every
\* run with the cleanup pass and the counts of its loop, so an undo of
\* either kind that returns success returns the tree after a cleanup pass,
\* at the end of its loop or, for a ledger without moves, at once with both
\* counts 0.
C34_UndoEquivalent ==
    [][ (pc' = "undone" /\ pc # pc' /\ undo_result' # <<>> /\ undo_result'[1].success) =>
          /\ fs' = cleanup_empty_dirs(fs)
          /\ undo_result'[1].undone = undone
          /\ undo_result'[1].failed = undo_failed ]_vars

\* C35: in the list the planner has made, a suggestion that suggests a
\* rename requires a move, and a suggestion requires no move exactly when
\* its file lies at category/year/name already and sanitization leaves its
\* name as it is.
C35_FlagsOfSuggestions ==
    (pc = "analyzed" /\ reviews = 0) =>
       \A j \in 1..Len(suggestions) :
          LET sg == suggestions[j]
          IN  /\ sg.rename_suggested => sg.move_required
              /\ ~sg.move_required <=>
                   ( /\ SplitPath(sg.original_path)
                          = <<sg.category, sg.year, sg.original_name>>
                     /\ clean_filename(sg.original_name) = sg.original_name )

\* the planner's list for two files that lie in the folder of their category
\* and year: b_c.txt, to be renamed, requires a move; a.txt requires none
C35_Witness ==
    /\ pc = "analyzed"
    /\ reviews = 0
    /\ \E j, k \in 1..Len(suggestions) :
          /\ suggestions[j].original_path = "Documents/2023/b_c.txt"
          /\ suggestions[j].year = "2023"
          /\ suggestions[j].rename_suggested
          /\ suggestions[j].move_required
          /\ suggestions[k].original_path = "Documents/2023/a.txt"
          /\ suggestions[k].year = "2023"
          /\ ~suggestions[k].rename_suggested
          /\ ~suggestions[k].move_required

\* the sum of the byte totals of the categories in C
RECURSIVE SizeOfCategories(_)
SizeOfCategories(C) ==
    IF C = {} THEN 0
    ELSE LET c == CHOOSE x \in C : TRUE
         IN  category_stats[c].size + SizeOfCategories(C \ {c})

\* C36: after a scan the total byte count of the report's summary is the sum
\* of the byte totals of its categories.
C36_TotalIsSumOfCategories ==
    Scanned => total_size(files_analyzed) = SizeOfCategories(DOMAIN category_stats)

\* C37: a batch that has started goes on, through the steps of its loop, to
\* the write of its ledger and returns; no suggestion is tried more than
\* max_retries times, and each step of the loop either goes to the next
\* suggestion or to the next attempt at the same one.
C37_BatchTerminates ==
    /\ (pc \in {"moving", "attempt"})
         ~> (pc = "executed" /\ saves = 1 /\ rollback_file # <<>> /\ exec_result # <<>>)
    /\ [](pc = "attempt" => attempt < max_retries)
    /\ [][ (pc \in {"moving", "attempt"}) =>
             \/ pc' = "executed" /\ idx > Len(to_execute)
             \/ idx' = idx + 1 /\ idx <= Len(to_execute)
             \/ idx' = idx /\ pc = "moving" /\ pc' = "attempt" /\ attempt' = 0
             \/ idx' = idx /\ pc = "attempt" /\ pc' = "attempt" /\ attempt' = attempt + 1 ]_vars

\* a batch of two suggestions has returned with its ledger written: one move
\* was given up after its third attempt, the other was made
C37_Witness ==
    /\ pc = "executed"
    /\ saves = 1
    /\ rollback_file # <<>>
    /\ Len(to_execute) = 2
    /\ Len(failed_moves) = 1
    /\ failed_moves[1].error = "move 3"
    /\ Len(executed_moves) = 1
    /\ rollback_file[1].moves = executed_moves

=============================================================================
